---- MODULE Spec2Model ----
(***************************************************************************)
(* Cluster-coordination layer of the hospital appointment backend:        *)
(* DistributedManager (distributedManager.js), the Express routes of      *)
(* server.js that carry the inter-node messages, and the `servers` table  *)
(* of database.js that all three node processes share (./hospital.db).    *)
(***************************************************************************)
EXTENDS Integers, Sequences, FiniteSets, Bags, TLC

(* ------------------------------ bounds -------------------------------- *)
\* external POST /api/servers/election requests (frontend button, curl)
MaxTriggers == 2
\* inter-node calls that time out although the peer is running
MaxFail == 1
\* node stops (crash or graceful shutdown)
MaxStops == 1
\* POST /api/bookings requests of clients
MaxBookings == 1
\* replication calls that time out although the peer is running
MaxReplFail == 1
\* node stops while bookings are served
MaxReplStops == 1
\* INSERTs of the origin that the database rejects with an error
MaxDbErr == 1
\* milliseconds that Date.now() advances
MaxClock == 1
\* POST /api/bookings requests served at the same time, none of them disturbed
MaxConcurrent == 2
\* calls of /api/clock-sync
MaxSyncs == 2
\* the last millisecond that Date.now() reaches while clocks are synchronized
MaxTime == 42
\* calls of /api/clock-sync while one clientTime is sent again
MaxRepeat == 3
\* batches, heartbeat ticks and snapshots that are begun
MaxJobs == 3
\* requests of one batch of POST /api/concurrent
MaxBatch == 2
\* calls of syncWithLeader while no peer answers
MaxSilentSyncs == 1
\* signals sent to the process manager
MaxSignals == 2
\* the node whose elections, bookings and clock are followed while no peer answers
SilentNode == 1

(* ------------------------- node directory ----------------------------- *)
\* this.servers: the ids of the compiled-in member list, in list order
servers == <<1, 2, 3>>

Servers == {servers[i] : i \in DOMAIN servers}

\* candidateId of a request that carries no body (req.body = {})
undefined == -1

\* candidateId values an external client may post
Candidates == {undefined} \cup {0} \cup Servers

\* this.servers.filter(s => s.id > this.serverId), ids in list order
HigherServers(n) == SelectSeq(servers, LAMBDA s : s > n)

\* variant: the filter is missing, the node is in its own list
OtherServers_All(n) == servers

\* this.servers.filter(s => s.id !== this.serverId), ids in list order
OtherServers(n) == SelectSeq(servers, LAMBDA s : s # n)

\* JavaScript `a < b` on a number or undefined: undefined compares false
JsLess(a, b) == a # undefined /\ a < b

(* --------------------------- pure decisions --------------------------- *)
\* variant: the reply flag the other way round (success = false for "alive")
ElectionReply_Negated(candidateId, selfId) == ~JsLess(candidateId, selfId)

\* POST /api/servers/election: the `success` field of the reply
ElectionReply(candidateId, selfId) == JsLess(candidateId, selfId)

\* variant: the timer is armed in both branches
ElectionSchedules_Always(candidateId, selfId) == TRUE

\* variant: the timer is never armed
ElectionSchedules_Never(candidateId, selfId) == FALSE

\* POST /api/servers/election: whether the handler arms the 1 s election timer
ElectionSchedules(candidateId, selfId) == JsLess(candidateId, selfId)

\* variant: `if (!response.data.success) return`
ResponseAborts_Inverted(success) == ~success

\* performBullyElection: `if (response.data.success) return`
ResponseAborts(success) == success

\* variant: the comparison written as a truthy assignment
LeaderFlag_Always(newLeaderId, selfId) == TRUE

\* POST /api/servers/leader-update: distManager.isLeader = (newLeaderId === SERVER_ID)
LeaderFlag(newLeaderId, selfId) == newLeaderId = selfId

(* ------------------------------ state --------------------------------- *)
VARIABLES
  up,          \* up[n]: the process of node n is running and answers requests
  isLeader,    \* distManager.isLeader of node n (kept as last seen when n stops)
  timers,      \* timers[n]: armed setTimeout(performBullyElection, 1000) callbacks
  tasks,       \* bag of async functions suspended at an await
  dbIsLeader,  \* servers.is_leader of the shared store
  dbStatus,    \* servers.status of the shared store
  shutdownPost,\* stopping leaders whose POST /election (no body) is on its way
  ntrig, nfail, nstop,   \* counters capped by the bounds
  cleanRound,  \* an election round began from rest and nothing failed/stopped since
  roundOrigin, \* node whose timer was armed by the request opening that round
  ev,          \* the last step taken
  dbFile,      \* dbFile[n]: the database file that './hospital.db' is for node n
  bookings,    \* bookings[f]: the rows of table bookings in file f
  slots,       \* slots[f][<<doctor_id, slot_time>>]: is_available in file f
  reqs,        \* the POST /api/bookings requests, in order of arrival
  orphans,     \* /replicate/booking handlers whose caller no longer waits
  now,         \* Date.now()
  nrfail, nrstop, ndberr, \* counters capped by the bounds
  clockOffset, \* distManager.clockOffset of node n, in 1/Scale ms
  syncs,       \* the calls of /api/clock-sync, in the order they were sent
  connections, \* distManager.connections of node n
  lastHeartbeat, \* distManager.lastHeartbeat of node n
  dbConnections, \* servers.connections of the shared store
  dbHeartbeat, \* servers.last_heartbeat of the shared store
  jobs,        \* batches, heartbeat writes and snapshots, in the order they began
  probes,      \* probes[n]: the other server whose /api/health node n awaits, or 0
  app,         \* the calls of handleBookAppointment of the browser app, in order
  manager      \* the ServerManager of start-servers.js and its child processes

\* the state of the booking and replication layer
storeVars == <<dbFile, bookings, slots, reqs, orphans, now, nrfail, nrstop, ndberr>>

\* the state of the election layer
electionVars == <<isLeader, timers, tasks, dbIsLeader, dbStatus, shutdownPost,
                  ntrig, nfail, nstop, cleanRound, roundOrigin>>

\* the state of the clock synchronization layer
clockVars == <<clockOffset, syncs>>

\* counters, heartbeats and probes of the nodes, and their columns in the store
statusVars == <<connections, lastHeartbeat, dbConnections, dbHeartbeat, jobs, probes>>

\* the browser app and the process manager, beside the nodes
outerVars == <<app, manager>>

\* what an election step that writes no status row leaves alone
besideElection == <<storeVars, clockVars, statusVars, outerVars>>

\* what a step of a booking leaves alone
besideStore == <<electionVars, clockVars, statusVars, outerVars>>

\* what a step of a clock synchronization leaves alone
besideClock == <<electionVars, statusVars, outerVars>>

vars == <<up, isLeader, timers, tasks, dbIsLeader, dbStatus, shutdownPost,
          ntrig, nfail, nstop, cleanRound, roundOrigin, ev, storeVars,
          clockVars, statusVars, outerVars>>

Task(n, pc, arg) == [node |-> n, pc |-> pc, arg |-> arg, orphan |-> FALSE]

Ev(kind, n, peer, cand, ok) ==
  [kind |-> kind, node |-> n, peer |-> peer, cand |-> cand, ok |-> ok]

TaskSet == BagToSet(tasks)

AddTask(b, t) == b (+) SetToBag({t})

DelTask(b, t) == b (-) SetToBag({t})

\* nothing of an election is in flight
Quiescent ==
  /\ tasks = EmptyBag
  /\ \A n \in Servers : timers[n] = 0
  /\ shutdownPost = {}

UpServers == {n \in Servers : up[n]}

Max(S) == CHOOSE x \in S : \A y \in S : y <= x

Leaders == {n \in Servers : up[n] /\ isLeader[n]}

(* ------------------------------ Init ---------------------------------- *)
\* doctors and slot times of seed.js that clients book here
DoctorIds == {1}

SlotTimes == {"09:00", "09:30"}

\* seedSlots: the rows of table slots, all inserted with is_available = 1
SeededSlots == DoctorIds \X SlotTimes

\* patientName values a client may post; "" stands for a missing field
PatientNames == {"", "Asha"}

\* Database.constructor(dbPath = './hospital.db'): the path is relative to the
\* working directory of the process.  start-servers.js and the .bat/.sh files
\* start all three nodes in one directory (one file for all); nodes started in
\* directories of their own have a file each.
OneFile == [n \in Servers |-> 1]

OwnFiles == [n \in Servers |-> n]

\* constructor: isLeader = false; seed.js: server 1 is_leader = 1, all 'active'
ElectionInit ==
  /\ up = [n \in Servers |-> TRUE]
  /\ isLeader = [n \in Servers |-> FALSE]
  /\ timers = [n \in Servers |-> 0]
  /\ tasks = EmptyBag
  /\ dbIsLeader = [n \in Servers |-> n = 1]
  /\ dbStatus = [n \in Servers |-> "active"]
  /\ shutdownPost = {}
  /\ ntrig = 0 /\ nfail = 0 /\ nstop = 0
  /\ cleanRound = FALSE
  /\ roundOrigin = 0
  /\ ev = Ev("init", 0, 0, 0, FALSE)

\* seed.js: bookings deleted, every seeded slot available
StoreInit(files) ==
  /\ dbFile = files
  /\ bookings = [f \in Servers |-> {}]
  /\ slots = [f \in Servers |-> [k \in SeededSlots |-> TRUE]]
  /\ reqs = <<>>
  /\ orphans = {}
  /\ now = 1
  /\ nrfail = 0 /\ nrstop = 0 /\ ndberr = 0

\* constructor of DistributedManager: this.clockOffset = 0
SyncInit ==
  /\ clockOffset = [n \in Servers |-> 0]
  /\ syncs = <<>>

\* constructor of DistributedManager: connections = 0, lastHeartbeat =
\* Date.now(); seed.js seedServers: connections 0, last_heartbeat Date.now()
StatusInit ==
  /\ connections = [n \in Servers |-> 0]
  /\ lastHeartbeat = [n \in Servers |-> 1]
  /\ dbConnections = [n \in Servers |-> 0]
  /\ dbHeartbeat = [n \in Servers |-> 1]
  /\ jobs = <<>>
  /\ probes = [n \in Servers |-> 0]

\* constructor of ServerManager: process: null for each server, isRunning = false
NewManager ==
  [pc |-> "new",          \* where the manager process is
   isRunning |-> FALSE,
   calls |-> 0,           \* calls of shutdown() so far
   process |-> [n \in Servers |-> "null"],  \* server.process and its child
   awaited |-> {},        \* servers whose 'exit' the promises of shutdown wait for
   stopped |-> {},        \* servers whose promise of shutdown is resolved
   reported |-> FALSE]    \* 'All servers stopped. Goodbye!' was logged

\* the app has booked nothing; the manager is constructed: process: null
OuterInit ==
  /\ app = <<>>
  /\ manager = NewManager

Init == ElectionInit /\ StoreInit(OneFile) /\ SyncInit /\ StatusInit /\ OuterInit

(* ----------------------------- helpers -------------------------------- *)
LuPcs == {"luClear", "luSet"}

IndexOf(seq, x) == CHOOSE i \in DOMAIN seq : seq[i] = x

\* a leader-update handler at node p working on behalf of caller n
IsHandler(h, p, n) == h.pc \in LuPcs /\ h.node = p /\ h.arg = n

\* a notifyServersOfNewLeader loop of node n awaiting the reply of peer p
IsWaiter(w, n, p) ==
  w.pc = "nwait" /\ w.node = n /\ OtherServers(n)[w.arg] = p

\* number of tasks of bag b that are in set S
BagCount(b, S) ==
  LET RECURSIVE Sum(_)
      Sum(T) == IF T = {} THEN 0
                ELSE LET t == CHOOSE x \in T : TRUE IN b[t] + Sum(T \ {t})
  IN Sum(S \cap BagToSet(b))

\* what is left of the tasks when the process of node n ends: its own async
\* functions are gone, and replies of peers still serving it find no receiver
StopTasks(n) ==
  LET kept == {t \in TaskSet : t.node # n}
      mark(t) == IF t.pc \in LuPcs /\ t.arg = n
                 THEN [t EXCEPT !.orphan = TRUE] ELSE t
      R == {mark(t) : t \in kept}
      cnt(r) == BagCount(tasks, {t \in kept : mark(t) = r})
  IN [r \in R |-> cnt(r)]

\* bookkeeping of the round flags
RoundSame == UNCHANGED <<cleanRound, roundOrigin>>

RoundDirty == cleanRound' = FALSE /\ roundOrigin' = 0

(* ----------------- POST /api/servers/election (handler) --------------- *)
\* the handler's effect on the receiving node p: it only arms the timer
HandleElection(candidateId, p) ==
  timers' = [timers EXCEPT ![p] =
               IF ElectionSchedules(candidateId, p) THEN @ + 1 ELSE @]

\* an external client posts {candidateId: c} to node p
ExternalElection(p, c) ==
  /\ ntrig < MaxTriggers
  /\ up[p]
  /\ ntrig' = ntrig + 1
  /\ HandleElection(c, p)
  /\ IF Quiescent /\ ElectionSchedules(c, p)
     THEN cleanRound' = TRUE /\ roundOrigin' = p
     ELSE RoundSame
  /\ ev' = Ev("election", 0, p, c, ElectionReply(c, p))
  /\ UNCHANGED besideElection
  /\ UNCHANGED <<up, isLeader, tasks, dbIsLeader, dbStatus, shutdownPost,
                 nfail, nstop>>

(* ------------------------ performBullyElection ------------------------ *)
\* variant: the flag assignment is missing, only the store is written
BecomeLeaderStart_NoFlag(n, ts) ==
  /\ UNCHANGED isLeader
  /\ tasks' = AddTask(ts, Task(n, "setLeader1", 0))

\* becomeLeader up to its first await: this.isLeader = true
BecomeLeaderStart(n, ts) ==
  /\ isLeader' = [isLeader EXCEPT ![n] = TRUE]
  /\ tasks' = AddTask(ts, Task(n, "setLeader1", 0))

\* the armed timer of node n fires: performBullyElection up to its first await
TimerFire(n) ==
  /\ up[n]
  /\ timers[n] > 0
  /\ timers' = [timers EXCEPT ![n] = @ - 1]
  /\ IF Len(HigherServers(n)) = 0
     THEN BecomeLeaderStart(n, tasks)
     ELSE /\ tasks' = AddTask(tasks, Task(n, "ask", 1))
          /\ UNCHANGED isLeader
  /\ ev' = Ev("start", n, 0, 0, Len(HigherServers(n)) = 0)
  /\ UNCHANGED besideElection
  /\ RoundSame
  /\ UNCHANGED <<up, dbIsLeader, dbStatus, shutdownPost, ntrig, nfail, nstop>>

\* variant: the loop contacts the same peer again after a failed contact
ContinueElection_Retry(t, ts) ==
  /\ tasks' = AddTask(ts, Task(t.node, "ask", t.arg))
  /\ UNCHANGED isLeader

\* the for loop goes on after a peer that did not abort the round:
\* responses++, next peer, or becomeLeader when responses === higherServers.length
ContinueElection(t, ts) ==
  IF t.arg < Len(HigherServers(t.node))
  THEN /\ tasks' = AddTask(ts, Task(t.node, "ask", t.arg + 1))
       /\ UNCHANGED isLeader
  ELSE BecomeLeaderStart(t.node, ts)

\* the election message to the t.arg-th higher server is answered
AskAnswered(t) ==
  LET n == t.node
      p == HigherServers(n)[t.arg]
      success == ElectionReply(n, p)
  IN /\ t.pc = "ask"
     /\ up[p]
     /\ HandleElection(n, p)
     /\ IF ResponseAborts(success)
        THEN tasks' = DelTask(tasks, t) /\ UNCHANGED isLeader
        ELSE ContinueElection(t, DelTask(tasks, t))
     /\ ev' = Ev("ask", n, p, n, success)
     /\ UNCHANGED besideElection
     /\ RoundSame
     /\ UNCHANGED <<up, dbIsLeader, dbStatus, shutdownPost, ntrig, nfail, nstop>>

\* the peer is not running: connection refused, "Server is down"
AskDown(t) ==
  LET n == t.node
      p == HigherServers(n)[t.arg]
  IN /\ t.pc = "ask"
     /\ ~up[p]
     /\ ContinueElection(t, DelTask(tasks, t))
     /\ ev' = Ev("askDown", n, p, n, FALSE)
     /\ UNCHANGED besideElection
     /\ RoundSame
     /\ UNCHANGED <<up, timers, dbIsLeader, dbStatus, shutdownPost,
                    ntrig, nfail, nstop>>

\* the 2000 ms timeout expires although the peer runs; the request either
\* never reached the peer or was handled and only the reply came too late
AskTimeout(t, handled) ==
  LET n == t.node
      p == HigherServers(n)[t.arg]
  IN /\ t.pc = "ask"
     /\ up[p]
     /\ nfail < MaxFail
     /\ nfail' = nfail + 1
     /\ IF handled THEN HandleElection(n, p) ELSE UNCHANGED timers
     /\ ContinueElection(t, DelTask(tasks, t))
     /\ ev' = Ev("askTimeout", n, p, n, handled)
     /\ UNCHANGED besideElection
     /\ RoundDirty
     /\ UNCHANGED <<up, dbIsLeader, dbStatus, shutdownPost, ntrig, nstop>>

(* ---------------------------- becomeLeader ---------------------------- *)
\* db.setLeader, first statement: UPDATE servers SET is_leader = 0
SetLeaderClear(t) ==
  /\ t.pc = "setLeader1"
  /\ dbIsLeader' = [s \in Servers |-> FALSE]
  /\ tasks' = AddTask(DelTask(tasks, t), [t EXCEPT !.pc = "setLeader2"])
  /\ ev' = Ev("dbClear", t.node, 0, 0, FALSE)
  /\ UNCHANGED besideElection
  /\ RoundSame
  /\ UNCHANGED <<up, isLeader, timers, dbStatus, shutdownPost, ntrig, nfail, nstop>>

\* db.setLeader, second statement: UPDATE servers SET is_leader = 1 WHERE id = ?
SetLeaderSet(t) ==
  /\ t.pc = "setLeader2"
  /\ dbIsLeader' = [dbIsLeader EXCEPT ![t.node] = TRUE]
  /\ tasks' = AddTask(DelTask(tasks, t), [t EXCEPT !.pc = "updStatus"])
  /\ ev' = Ev("dbSet", t.node, 0, 0, TRUE)
  /\ UNCHANGED besideElection
  /\ RoundSame
  /\ UNCHANGED <<up, isLeader, timers, dbStatus, shutdownPost, ntrig, nfail, nstop>>

\* db.updateServerStatus(serverId, connections, true, 'active'); the loop of
\* notifyServersOfNewLeader then posts to the first other server
UpdateStatus(t) ==
  /\ t.pc = "updStatus"
  /\ dbIsLeader' = [dbIsLeader EXCEPT ![t.node] = TRUE]
  /\ dbStatus' = [dbStatus EXCEPT ![t.node] = "active"]
  /\ dbConnections' = [dbConnections EXCEPT ![t.node] = connections[t.node]]
  /\ dbHeartbeat' = [dbHeartbeat EXCEPT ![t.node] = now]
  /\ tasks' = AddTask(DelTask(tasks, t), Task(t.node, "notify", 1))
  /\ ev' = Ev("dbStatus", t.node, 0, 0, TRUE)
  /\ UNCHANGED <<outerVars, storeVars, clockVars, connections, lastHeartbeat, jobs, probes>>
  /\ RoundSame
  /\ UNCHANGED <<up, isLeader, timers, shutdownPost, ntrig, nfail, nstop>>

(* ---------------------- notifyServersOfNewLeader ---------------------- *)
\* the loop goes on to the next other server, or ends
NotifyAdvance(t, ts) ==
  IF t.arg < Len(OtherServers(t.node))
  THEN tasks' = AddTask(ts, Task(t.node, "notify", t.arg + 1))
  ELSE tasks' = ts

\* variant: one try/catch around the whole loop, the first failure ends it
NotifyFailed_Abort(t, ts) == tasks' = ts

\* catch (error) inside the loop: "Failed to notify server", the loop goes on
NotifyFailed(t, ts) == NotifyAdvance(t, ts)

\* the leader-update reaches peer p: the handler sets its flag at once and
\* then awaits db.setLeader before it replies
NotifyDelivered(t) ==
  LET n == t.node
      p == OtherServers(n)[t.arg]
  IN /\ t.pc = "notify"
     /\ up[p]
     /\ isLeader' = [isLeader EXCEPT ![p] = LeaderFlag(n, p)]
     /\ tasks' = AddTask(AddTask(DelTask(tasks, t), [t EXCEPT !.pc = "nwait"]),
                         Task(p, "luClear", n))
     /\ ev' = Ev("leaderUpdate", n, p, n, LeaderFlag(n, p))
     /\ UNCHANGED besideElection
     /\ RoundSame
     /\ UNCHANGED <<up, timers, dbIsLeader, dbStatus, shutdownPost,
                    ntrig, nfail, nstop>>

\* the peer is not running: "Failed to notify server"
NotifyDown(t) ==
  LET n == t.node
      p == OtherServers(n)[t.arg]
  IN /\ t.pc = "notify"
     /\ ~up[p]
     /\ NotifyFailed(t, DelTask(tasks, t))
     /\ ev' = Ev("notifyDown", n, p, n, FALSE)
     /\ UNCHANGED besideElection
     /\ RoundSame
     /\ UNCHANGED <<up, isLeader, timers, dbIsLeader, dbStatus, shutdownPost,
                    ntrig, nfail, nstop>>

\* the request is lost and the 1000 ms timeout expires
NotifyLost(t) ==
  LET n == t.node
      p == OtherServers(n)[t.arg]
  IN /\ t.pc = "notify"
     /\ up[p]
     /\ nfail < MaxFail
     /\ nfail' = nfail + 1
     /\ NotifyFailed(t, DelTask(tasks, t))
     /\ ev' = Ev("notifyLost", n, p, n, FALSE)
     /\ UNCHANGED besideElection
     /\ RoundDirty
     /\ UNCHANGED <<up, isLeader, timers, dbIsLeader, dbStatus, shutdownPost,
                    ntrig, nstop>>

\* the 1000 ms timeout expires while the peer's handler still runs; the
\* handler goes on, its reply will find no receiver
NotifyTimeout(t) ==
  LET n == t.node
      p == OtherServers(n)[t.arg]
  IN /\ t.pc = "nwait"
     /\ nfail < MaxFail
     /\ \E h \in TaskSet :
          /\ IsHandler(h, p, n) /\ ~h.orphan
          /\ NotifyFailed(t, AddTask(DelTask(DelTask(tasks, t), h),
                                     [h EXCEPT !.orphan = TRUE]))
     /\ nfail' = nfail + 1
     /\ ev' = Ev("notifyTimeout", n, p, n, FALSE)
     /\ UNCHANGED besideElection
     /\ RoundDirty
     /\ UNCHANGED <<up, isLeader, timers, dbIsLeader, dbStatus, shutdownPost,
                    ntrig, nstop>>

\* the peer that was serving the request is gone: the call fails
NotifyPeerGone(t) ==
  LET n == t.node
      p == OtherServers(n)[t.arg]
  IN /\ t.pc = "nwait"
     /\ BagCount(tasks, {h \in TaskSet : IsHandler(h, p, n) /\ ~h.orphan})
          < BagCount(tasks, {w \in TaskSet : IsWaiter(w, n, p)})
     /\ NotifyFailed(t, DelTask(tasks, t))
     /\ ev' = Ev("notifyDown", n, p, n, FALSE)
     /\ UNCHANGED besideElection
     /\ RoundSame
     /\ UNCHANGED <<up, isLeader, timers, dbIsLeader, dbStatus, shutdownPost,
                    ntrig, nfail, nstop>>

(* ------------------ POST /api/servers/leader-update ------------------- *)
\* db.setLeader(newLeaderId), first statement
LeaderUpdateClear(h) ==
  /\ h.pc = "luClear"
  /\ dbIsLeader' = [s \in Servers |-> FALSE]
  /\ tasks' = AddTask(DelTask(tasks, h), [h EXCEPT !.pc = "luSet"])
  /\ ev' = Ev("dbClear", h.node, 0, h.arg, FALSE)
  /\ UNCHANGED besideElection
  /\ RoundSame
  /\ UNCHANGED <<up, isLeader, timers, dbStatus, shutdownPost, ntrig, nfail, nstop>>

\* db.setLeader(newLeaderId), second statement, then res.json({success: true}):
\* the awaiting loop of the new leader goes on
LeaderUpdateSet(h) ==
  LET ts == DelTask(tasks, h)
      n == h.arg
  IN /\ h.pc = "luSet"
     /\ dbIsLeader' = [dbIsLeader EXCEPT ![n] = TRUE]
     /\ IF h.orphan
        THEN tasks' = ts
        ELSE \E w \in BagToSet(ts) :
               /\ IsWaiter(w, n, h.node)
               /\ NotifyAdvance(w, DelTask(ts, w))
     /\ ev' = Ev("dbSet", h.node, 0, n, ~h.orphan)
     /\ UNCHANGED besideElection
     /\ RoundSame
     /\ UNCHANGED <<up, isLeader, timers, dbStatus, shutdownPost, ntrig, nfail, nstop>>

(* ------------------------ failure and recovery ------------------------ *)
\* the process of node n dies (or hangs for good): nothing of it runs on
Crash(n) ==
  /\ up[n]
  /\ nstop < MaxStops
  /\ nstop' = nstop + 1
  /\ up' = [up EXCEPT ![n] = FALSE]
  /\ timers' = [timers EXCEPT ![n] = 0]
  /\ tasks' = StopTasks(n)
  /\ ev' = Ev("crash", n, 0, 0, isLeader[n])
  /\ UNCHANGED besideElection
  /\ RoundDirty
  /\ UNCHANGED <<isLeader, dbIsLeader, dbStatus, shutdownPost, ntrig, nfail>>

\* SIGINT/SIGTERM: distManager.shutdown() then process.exit(0).
\* shutdown writes its row (connections 0, is_leader false, 'inactive') and, if
\* leader, arms a 1 s timer that posts /election without a body to the first
\* other server; the process exits as soon as db.close() resolves, so whether
\* that timer fires first is a race: `posted` is its outcome
Shutdown(n, posted) ==
  /\ up[n]
  /\ nstop < MaxStops
  /\ nstop' = nstop + 1
  /\ dbIsLeader' = [dbIsLeader EXCEPT ![n] = FALSE]
  /\ dbStatus' = [dbStatus EXCEPT ![n] = "inactive"]
  /\ up' = [up EXCEPT ![n] = FALSE]
  /\ timers' = [timers EXCEPT ![n] = 0]
  /\ tasks' = StopTasks(n)
  /\ posted => isLeader[n]
  /\ shutdownPost' = IF posted THEN shutdownPost \cup {n} ELSE shutdownPost
  /\ dbConnections' = [dbConnections EXCEPT ![n] = 0]
  /\ dbHeartbeat' = [dbHeartbeat EXCEPT ![n] = now]
  /\ ev' = Ev("shutdown", n, 0, 0, isLeader[n])
  /\ UNCHANGED <<outerVars, storeVars, clockVars, connections, lastHeartbeat, jobs, probes>>
  /\ RoundDirty
  /\ UNCHANGED <<isLeader, ntrig, nfail>>

\* the body-less POST /election of a stopping leader reaches otherServers[0]
\* (or fails: "Could not trigger election")
ShutdownPostArrives(n) ==
  LET p == OtherServers(n)[1]
  IN /\ n \in shutdownPost
     /\ shutdownPost' = shutdownPost \ {n}
     /\ IF up[p]
        THEN /\ HandleElection(undefined, p)
             /\ ev' = Ev("election", n, p, undefined, ElectionReply(undefined, p))
        ELSE /\ UNCHANGED timers
             /\ ev' = Ev("postDown", n, p, undefined, FALSE)
     /\ UNCHANGED besideElection
     /\ RoundSame
     /\ UNCHANGED <<up, isLeader, tasks, dbIsLeader, dbStatus, ntrig, nfail, nstop>>

\* node n is started again: constructor, isLeader = false, connections = 0,
\* clockOffset = 0, lastHeartbeat = Date.now()
Restart(n) ==
  /\ ~up[n]
  /\ up' = [up EXCEPT ![n] = TRUE]
  /\ isLeader' = [isLeader EXCEPT ![n] = FALSE]
  /\ connections' = [connections EXCEPT ![n] = 0]
  /\ clockOffset' = [clockOffset EXCEPT ![n] = 0]
  /\ lastHeartbeat' = [lastHeartbeat EXCEPT ![n] = now]
  /\ probes' = [probes EXCEPT ![n] = 0]
  /\ ev' = Ev("restart", n, 0, 0, FALSE)
  /\ UNCHANGED <<outerVars, storeVars, syncs, dbConnections, dbHeartbeat, jobs>>
  /\ RoundDirty
  /\ UNCHANGED <<timers, tasks, dbIsLeader, dbStatus, shutdownPost,
                 ntrig, nfail, nstop>>

\* startLeaderCheck tick: only a leader probes GET /api/health of the others;
\* a failed probe is logged, nothing else happens
LeaderCheck(n) ==
  /\ up[n]
  /\ isLeader[n]
  /\ ev' = Ev("probe", n, 0, 0, \A i \in DOMAIN OtherServers(n) : up[OtherServers(n)[i]])
  /\ UNCHANGED besideElection
  /\ UNCHANGED <<up, isLeader, timers, tasks, dbIsLeader, dbStatus, shutdownPost,
                 ntrig, nfail, nstop, cleanRound, roundOrigin>>

(* --------------------------- specification ---------------------------- *)
\* steps the running nodes take by themselves
Progress ==
  \/ \E n \in Servers : TimerFire(n)
  \/ \E t \in TaskSet : AskAnswered(t)
  \/ \E t \in TaskSet : AskDown(t)
  \/ \E t \in TaskSet : SetLeaderClear(t)
  \/ \E t \in TaskSet : SetLeaderSet(t)
  \/ \E t \in TaskSet : UpdateStatus(t)
  \/ \E t \in TaskSet : NotifyDelivered(t)
  \/ \E t \in TaskSet : NotifyDown(t)
  \/ \E t \in TaskSet : NotifyPeerGone(t)
  \/ \E t \in TaskSet : LeaderUpdateClear(t)
  \/ \E t \in TaskSet : LeaderUpdateSet(t)
  \/ \E n \in Servers : ShutdownPostArrives(n)

\* the 10 s liveness probe of a leader
Monitor == \E n \in Servers : LeaderCheck(n)

\* steps of the environment: clients, the network, the operator
Environment ==
  \/ \E p \in Servers, c \in Candidates : ExternalElection(p, c)
  \/ \E t \in TaskSet, handled \in BOOLEAN : AskTimeout(t, handled)
  \/ \E t \in TaskSet : NotifyLost(t)
  \/ \E t \in TaskSet : NotifyTimeout(t)
  \/ \E n \in Servers : Crash(n)
  \/ \E n \in Servers, posted \in BOOLEAN : Shutdown(n, posted)
  \/ \E n \in Servers : Restart(n)

Next == Progress \/ Monitor \/ Environment

Spec == Init /\ [][Next]_vars

\* timers fire and awaited calls return: the event loop runs every ready callback
FairSpec == Spec /\ WF_vars(Progress) /\ WF_vars(Monitor)

\* the steps of an election and of the becomeLeader that ends it
ElectionSteps ==
  \/ \E n \in Servers : TimerFire(n)
  \/ \E t \in TaskSet : AskAnswered(t)
  \/ \E t \in TaskSet : AskDown(t)
  \/ \E t \in TaskSet : SetLeaderClear(t)
  \/ \E t \in TaskSet : SetLeaderSet(t)
  \/ \E t \in TaskSet : UpdateStatus(t)
  \/ \E t \in TaskSet : NotifyDelivered(t)
  \/ \E t \in TaskSet : NotifyDown(t)
  \/ \E t \in TaskSet : NotifyPeerGone(t)
  \/ \E t \in TaskSet : LeaderUpdateClear(t)
  \/ \E t \in TaskSet : LeaderUpdateSet(t)

\* one POST /api/servers/election from a client, sent in any state that
\* crashes and restarts lead to; calls may time out, nodes crash and restart
TriggerNext ==
  \/ ElectionSteps
  \/ \E p \in Servers, c \in Candidates : ntrig = 0 /\ ExternalElection(p, c)
  \/ \E t \in TaskSet, handled \in BOOLEAN : AskTimeout(t, handled)
  \/ \E t \in TaskSet : NotifyLost(t)
  \/ \E t \in TaskSet : NotifyTimeout(t)
  \/ \E n \in Servers : Crash(n)
  \/ \E n \in Servers : Restart(n)

TriggerSpec == Init /\ [][TriggerNext]_vars /\ WF_vars(ElectionSteps)

(* ====================================================================== *)
(*                      bookings and their replication                    *)
(* ====================================================================== *)
\* rows of a bookings table that carry confirmation_id c
RowsOf(rows, c) == {x \in rows : x.confirmation_id = c}

\* values that Date.now() may return: the clock never runs backwards
Clock == now .. (1 + MaxClock)

\* variant: the column confirmation_id is not UNIQUE
InsertOk_NoUnique(rows, confirmationId) == TRUE

\* bookings.confirmation_id TEXT UNIQUE NOT NULL: the INSERT is rejected when a
\* row with this confirmation_id exists
InsertOk(rows, confirmationId) == RowsOf(rows, confirmationId) = {}

\* Database.createBooking: INSERT INTO bookings with `const timestamp = Date.now()`
CreateBooking(rows, doctorId, patientName, slotTime, confirmationId, serverId, timestamp) ==
  rows \cup {[id |-> Cardinality(rows) + 1,
              doctor_id |-> doctorId,
              patient_name |-> patientName,
              slot_time |-> slotTime,
              confirmation_id |-> confirmationId,
              booking_timestamp |-> timestamp,
              server_id |-> serverId]}

\* variant: resolve(true) whatever the UPDATE changed
SlotChanged_Always(tbl, doctorId, slotTime) == TRUE

\* Database.bookSlot: resolve(this.changes > 0)
SlotChanged(tbl, doctorId, slotTime) ==
  <<doctorId, slotTime>> \in DOMAIN tbl /\ tbl[<<doctorId, slotTime>>]

\* Database.bookSlot: UPDATE slots SET is_available = 0
\*   WHERE doctor_id = ? AND slot_time = ? AND is_available = 1
BookSlot(tbl, doctorId, slotTime) ==
  [k \in DOMAIN tbl |-> IF k = <<doctorId, slotTime>> THEN FALSE ELSE tbl[k]]

\* POST /api/bookings: if (!doctorId || !patientName || !slotTime)
FieldsMissing(doctorId, patientName, slotTime) ==
  doctorId = 0 \/ patientName = "" \/ slotTime = ""

\* a POST /api/bookings request that node o has read
Request(o, doctorId, patientName, slotTime) ==
  [origin |-> o, doctorId |-> doctorId, patientName |-> patientName,
   slotTime |-> slotTime,
   pc |-> "bookSlot",    \* the await the handler is at
   i |-> 0,              \* index of the for loop over otherServers
   confirmationId |-> 0, \* `CONF${uuidv4()...}`, none yet
   timestamp |-> 0,      \* bookingResult.timestamp
   status |-> 0,         \* HTTP status of the answer, none yet
   rb |-> <<>>,          \* how each post of replicateBooking ended
   rs |-> <<>>,          \* how each post of replicateSlotUpdate ended
   touched |-> {}]       \* files that /replicate/booking handlers changed for it

\* res.status(code).json(...) / res.json(...): the handler is over
Answer(r, code) == [r EXCEPT !.pc = "done", !.status = code]

\* the server that the for loop of request r is at
Peer(r) == OtherServers(r.origin)[r.i]

\* replicateBooking: the loop goes on after a post that ended as `outcome`;
\* after the last server replicateSlotUpdate starts
RbNext(r, outcome) ==
  LET q == [r EXCEPT !.rb = Append(@, outcome)]
  IN IF r.i < Len(OtherServers(r.origin))
     THEN [q EXCEPT !.pc = "rb", !.i = r.i + 1]
     ELSE [q EXCEPT !.pc = "rs", !.i = 1]

\* variant: the error leaves replicateBooking; the catch of POST /api/bookings
\* logs it and the handler answers
RbFailed_Throw(r, outcome) == Answer([r EXCEPT !.rb = Append(@, outcome)], 200)

\* replicateBooking, catch (error) inside the loop: "Failed to replicate"
RbFailed(r, outcome) == RbNext(r, outcome)

\* replicateSlotUpdate: the loop goes on; after the last server the handler of
\* POST /api/bookings answers {success: true}
RsNext(r, outcome) ==
  LET q == [r EXCEPT !.rs = Append(@, outcome)]
  IN IF r.i < Len(OtherServers(r.origin))
     THEN [q EXCEPT !.i = r.i + 1]
     ELSE Answer(q, 200)

\* variant: the failure is answered as an error
RsFailed_Error(r, outcome) == Answer([r EXCEPT !.rs = Append(@, outcome)], 500)

\* replicateSlotUpdate, catch (error) inside the loop
RsFailed(r, outcome) == RsNext(r, outcome)

\* the /replicate/booking handler of node n that goes on without a caller:
\* its db.bookSlot is still to come
Orphan(k, r) ==
  [node |-> Peer(r), req |-> k, doctorId |-> r.doctorId, slotTime |-> r.slotTime]

Requests == DOMAIN reqs

SetReq(k, r) == reqs' = [reqs EXCEPT ![k] = r]

(* -------------------------- POST /api/bookings ------------------------ *)
\* a client posts {doctorId, patientName, slotTime} to node o; a request with
\* a missing field is answered 400 at once
PostBooking(o, doctorId, patientName, slotTime) ==
  LET r == Request(o, doctorId, patientName, slotTime)
      missing == FieldsMissing(doctorId, patientName, slotTime)
  IN /\ up[o]
     /\ reqs' = Append(reqs, IF missing THEN Answer(r, 400) ELSE r)
     /\ ev' = Ev("post", o, 0, Len(reqs) + 1, ~missing)
     /\ UNCHANGED <<up, dbFile, bookings, slots, orphans, now, nrfail, nrstop, ndberr>>
     /\ UNCHANGED besideStore

\* await db.bookSlot(doctorId, slotTime): false is answered 400 'Slot no longer
\* available'; otherwise the confirmation id is drawn (a fresh one)
BookSlotStep(k) ==
  LET r == reqs[k]
      f == dbFile[r.origin]
      changed == SlotChanged(slots[f], r.doctorId, r.slotTime)
  IN /\ r.pc = "bookSlot"
     /\ up[r.origin]
     /\ slots' = [slots EXCEPT ![f] = BookSlot(@, r.doctorId, r.slotTime)]
     /\ SetReq(k, IF changed
                  THEN [r EXCEPT !.pc = "create", !.confirmationId = k]
                  ELSE Answer(r, 400))
     /\ ev' = Ev("bookSlot", r.origin, 0, k, changed)
     /\ UNCHANGED <<up, dbFile, bookings, orphans, now, nrfail, nrstop, ndberr>>
     /\ UNCHANGED besideStore

\* await db.createBooking(..., confirmationId, SERVER_ID), which reads the
\* clock (t); a rejected INSERT (constraint, or any other database error:
\* `err`) is caught and answered 500
CreateStep(k, err, t) ==
  LET r == reqs[k]
      f == dbFile[r.origin]
      inserted == ~err /\ InsertOk(bookings[f], r.confirmationId)
  IN /\ r.pc = "create"
     /\ up[r.origin]
     /\ now' = t
     /\ err => ndberr < MaxDbErr
     /\ ndberr' = IF err THEN ndberr + 1 ELSE ndberr
     /\ IF inserted
        THEN /\ bookings' = [bookings EXCEPT ![f] =
                   CreateBooking(@, r.doctorId, r.patientName, r.slotTime,
                                 r.confirmationId, r.origin, t)]
             /\ SetReq(k, [r EXCEPT !.pc = "rb", !.i = 1, !.timestamp = t])
        ELSE /\ UNCHANGED bookings
             /\ SetReq(k, Answer(r, 500))
     /\ ev' = Ev("create", r.origin, 0, k, inserted)
     /\ UNCHANGED <<up, dbFile, slots, orphans, nrfail, nrstop>>
     /\ UNCHANGED besideStore

(* ------------- replicateBooking and POST /api/replicate/booking -------- *)
\* the post reaches the peer: its handler awaits db.createBooking(doctorId,
\* patientName, slotTime, confirmationId, serverId) of the body, which reads
\* the clock (t); a rejected INSERT is answered 500, which the caller's axios
\* throws
RbDeliver(k, t) ==
  LET r == reqs[k]
      f == dbFile[Peer(r)]
      inserted == InsertOk(bookings[f], r.confirmationId)
  IN /\ r.pc = "rb"
     /\ up[r.origin] /\ up[Peer(r)]
     /\ now' = t
     /\ IF inserted
        THEN /\ bookings' = [bookings EXCEPT ![f] =
                   CreateBooking(@, r.doctorId, r.patientName, r.slotTime,
                                 r.confirmationId, r.origin, t)]
             /\ SetReq(k, [r EXCEPT !.pc = "rbSlot", !.touched = @ \cup {f}])
        ELSE /\ UNCHANGED bookings
             /\ SetReq(k, RbFailed(r, "rejected"))
     /\ ev' = Ev("rbApply", r.origin, Peer(r), k, inserted)
     /\ UNCHANGED <<up, dbFile, slots, orphans, nrfail, nrstop, ndberr>>
     /\ UNCHANGED besideStore

\* the peer's handler: await db.bookSlot(doctorId, slotTime), then
\* res.json({success: true}); the loop of the caller goes on
RbSlot(k) ==
  LET r == reqs[k]
      f == dbFile[Peer(r)]
      changed == SlotChanged(slots[f], r.doctorId, r.slotTime)
  IN /\ r.pc = "rbSlot"
     /\ up[r.origin] /\ up[Peer(r)]
     /\ slots' = [slots EXCEPT ![f] = BookSlot(@, r.doctorId, r.slotTime)]
     /\ SetReq(k, RbNext([r EXCEPT !.touched =
                            IF changed THEN @ \cup {f} ELSE @], "ok"))
     /\ ev' = Ev("rbReply", r.origin, Peer(r), k, TRUE)
     /\ UNCHANGED <<up, dbFile, bookings, orphans, now, nrfail, nrstop, ndberr>>
     /\ UNCHANGED besideStore

\* the peer is not running: connection refused
RbDown(k) ==
  LET r == reqs[k]
  IN /\ r.pc = "rb"
     /\ up[r.origin] /\ ~up[Peer(r)]
     /\ SetReq(k, RbFailed(r, "down"))
     /\ ev' = Ev("rbDown", r.origin, Peer(r), k, FALSE)
     /\ UNCHANGED <<up, dbFile, bookings, slots, orphans, now, nrfail, nrstop, ndberr>>
     /\ UNCHANGED besideStore

\* the 2000 ms timeout expires: the request never reached the running peer
\* (pc "rb"), or its handler is still at work and goes on without a caller
RbTimeout(k) ==
  LET r == reqs[k]
  IN /\ r.pc \in {"rb", "rbSlot"}
     /\ up[r.origin] /\ up[Peer(r)]
     /\ nrfail < MaxReplFail
     /\ nrfail' = nrfail + 1
     /\ orphans' = IF r.pc = "rbSlot" THEN orphans \cup {Orphan(k, r)} ELSE orphans
     /\ SetReq(k, RbFailed(r, IF r.pc = "rbSlot" THEN "timeout" ELSE "lost"))
     /\ ev' = Ev("rbTimeout", r.origin, Peer(r), k, r.pc = "rbSlot")
     /\ UNCHANGED <<up, dbFile, bookings, slots, now, nrstop, ndberr>>
     /\ UNCHANGED besideStore

\* a handler without a caller runs its db.bookSlot; its answer goes nowhere
OrphanSlot(o) ==
  LET f == dbFile[o.node]
      changed == SlotChanged(slots[f], o.doctorId, o.slotTime)
  IN /\ o \in orphans
     /\ orphans' = orphans \ {o}
     /\ slots' = [slots EXCEPT ![f] = BookSlot(@, o.doctorId, o.slotTime)]
     /\ reqs' = [reqs EXCEPT ![o.req].touched = IF changed THEN @ \cup {f} ELSE @]
     /\ ev' = Ev("orphanSlot", o.node, 0, o.req, changed)
     /\ UNCHANGED <<up, dbFile, bookings, now, nrfail, nrstop, ndberr>>
     /\ UNCHANGED besideStore

(* ------------- replicateSlotUpdate and POST /api/replicate/slot -------- *)
\* the post reaches the peer: await db.bookSlot(doctorId, slotTime), whose
\* result the handler ignores, then res.json({success: true})
RsDeliver(k) ==
  LET r == reqs[k]
      f == dbFile[Peer(r)]
  IN /\ r.pc = "rs"
     /\ up[r.origin] /\ up[Peer(r)]
     /\ slots' = [slots EXCEPT ![f] = BookSlot(@, r.doctorId, r.slotTime)]
     /\ SetReq(k, RsNext(r, "ok"))
     /\ ev' = Ev("rsReply", r.origin, Peer(r), k, TRUE)
     /\ UNCHANGED <<up, dbFile, bookings, orphans, now, nrfail, nrstop, ndberr>>
     /\ UNCHANGED besideStore

\* the peer is not running
RsDown(k) ==
  LET r == reqs[k]
  IN /\ r.pc = "rs"
     /\ up[r.origin] /\ ~up[Peer(r)]
     /\ SetReq(k, RsFailed(r, "down"))
     /\ ev' = Ev("rsDown", r.origin, Peer(r), k, FALSE)
     /\ UNCHANGED <<up, dbFile, bookings, slots, orphans, now, nrfail, nrstop, ndberr>>
     /\ UNCHANGED besideStore

\* the 2000 ms timeout expires on a running peer; `handled`: the peer ran the
\* handler and only its answer came too late
RsTimeout(k, handled) ==
  LET r == reqs[k]
      f == dbFile[Peer(r)]
  IN /\ r.pc = "rs"
     /\ up[r.origin] /\ up[Peer(r)]
     /\ nrfail < MaxReplFail
     /\ nrfail' = nrfail + 1
     /\ slots' = IF handled
                 THEN [slots EXCEPT ![f] = BookSlot(@, r.doctorId, r.slotTime)]
                 ELSE slots
     /\ SetReq(k, RsFailed(r, IF handled THEN "timeout" ELSE "lost"))
     /\ ev' = Ev("rsTimeout", r.origin, Peer(r), k, handled)
     /\ UNCHANGED <<up, dbFile, bookings, orphans, now, nrstop, ndberr>>
     /\ UNCHANGED besideStore

(* ------------------------------ processes ------------------------------ *)
\* what the stop of node n makes of request k: a request of n gets no answer,
\* a caller waiting for the handler of n sees the connection fail
StopRequest(n, r) ==
  IF r.origin = n
  THEN IF r.pc = "done" THEN r ELSE [r EXCEPT !.pc = "dead"]
  ELSE IF r.pc = "rbSlot" /\ Peer(r) = n THEN RbFailed(r, "gone") ELSE r

\* the process of node n ends while bookings are served
StopNode(n) ==
  /\ up[n]
  /\ nrstop < MaxReplStops
  /\ nrstop' = nrstop + 1
  /\ up' = [up EXCEPT ![n] = FALSE]
  /\ reqs' = [k \in Requests |-> StopRequest(n, reqs[k])]
  /\ orphans' = {o \in orphans : o.node # n}
                  \cup {Orphan(k, reqs[k]) : k \in {j \in Requests :
                          reqs[j].origin = n /\ reqs[j].pc = "rbSlot"}}
  /\ ev' = Ev("stop", n, 0, 0, FALSE)
  /\ UNCHANGED <<dbFile, bookings, slots, now, nrfail, ndberr>>
  /\ UNCHANGED besideStore

\* node n is started again on the database file it had
StartNode(n) ==
  /\ ~up[n]
  /\ up' = [up EXCEPT ![n] = TRUE]
  /\ ev' = Ev("startNode", n, 0, 0, TRUE)
  /\ UNCHANGED storeVars
  /\ UNCHANGED besideStore

\* steps of a request that no failure disturbs
Serve ==
  \/ \E k \in Requests : BookSlotStep(k)
  \/ \E k \in Requests, t \in Clock : CreateStep(k, FALSE, t)
  \/ \E k \in Requests, t \in Clock : RbDeliver(k, t)
  \/ \E k \in Requests : RbSlot(k)
  \/ \E k \in Requests : RsDeliver(k)

\* failures: of the database, of the network, of processes
Disturb ==
  \/ \E k \in Requests, t \in Clock : CreateStep(k, TRUE, t)
  \/ \E k \in Requests : RbDown(k)
  \/ \E k \in Requests : RbTimeout(k)
  \/ \E o \in orphans : OrphanSlot(o)
  \/ \E k \in Requests : RsDown(k)
  \/ \E k \in Requests, handled \in BOOLEAN : RsTimeout(k, handled)
  \/ \E n \in Servers : StopNode(n)
  \/ \E n \in Servers : StartNode(n)

BookingNext ==
  \/ \E o \in Servers, d \in DoctorIds, p \in PatientNames, s \in SlotTimes :
       Len(reqs) < MaxBookings /\ PostBooking(o, d, p, s)
  \/ Serve
  \/ Disturb

\* the nodes in one directory, as the start scripts run them, or in one each
BookingInit ==
  /\ ElectionInit /\ (StoreInit(OneFile) \/ StoreInit(OwnFiles))
  /\ SyncInit /\ StatusInit /\ OuterInit

BookingSpec == BookingInit /\ [][BookingNext]_vars

\* requests served side by side while every node runs and every call arrives
ConcurrentNext ==
  \/ \E o \in Servers, d \in DoctorIds, p \in PatientNames, s \in SlotTimes :
       Len(reqs) < MaxConcurrent /\ PostBooking(o, d, p, s)
  \/ Serve
  \/ \E k \in Requests, t \in Clock : CreateStep(k, TRUE, t)

ConcurrentSpec == BookingInit /\ [][ConcurrentNext]_vars

(* ====================================================================== *)
(*                        clock synchronization                           *)
(* ====================================================================== *)
\* times and offsets are kept in 1/Scale ms: an offset is a multiple of half
\* a millisecond and performClockSync halves once more
Scale == 4

\* Date.now() when the clock of the machine shows millisecond t
DateNow(t) == Scale * t

\* variant: the round trip is not halved
Half_Whole(x) == x

\* x / 2
Half(x) == x \div 2

\* milliseconds between two reads of the clock by a caller and a handler
Delays == {0, 20}

\* milliseconds that pass between two Date.now() of one function
Ticks == {0, 1}

\* variant: the clock of the node is read without its clockOffset
performClockSync_NoOffset(clientTime, dateNow1, dateNow2, offset) ==
  [adjustedTime |-> dateNow1 + Half(dateNow2 - clientTime),
   rtt |-> dateNow2 - clientTime, serverTime |-> dateNow1, clockOffset |-> offset]

\* DistributedManager.performClockSync(clientTime) at a node whose clockOffset
\* is `offset`; dateNow1 and dateNow2 are what its two Date.now() return
performClockSync(clientTime, dateNow1, dateNow2, offset) ==
  LET t0 == clientTime
      serverTime == dateNow1 + offset
      t1 == dateNow2 + offset
      rtt == t1 - t0
      adjustedTime == serverTime + Half(rtt)
  IN [adjustedTime |-> adjustedTime, rtt |-> rtt, serverTime |-> serverTime,
      clockOffset |-> offset]

\* no response read yet
NoResult == [adjustedTime |-> 0, rtt |-> 0, serverTime |-> 0, clockOffset |-> 0]

\* a call of /api/clock-sync at node `to`; caller 0 is a client of the cluster.
\* clientTime 0 stands for a request that carries none
SyncCall(caller, to, method, clientTime) ==
  [caller |-> caller, to |-> to, method |-> method, clientTime |-> clientTime,
   sentAt |-> now,       \* millisecond at which the request left
   pc |-> "sent",
   handledAt |-> 0,      \* millisecond at which the handler ran
   res |-> NoResult,     \* the response body
   endTime |-> 0,        \* millisecond at which the caller read the response
   rtt |-> 0,            \* endTime - startTime of syncWithLeader
   setAt |-> 0]          \* Date.now() that syncWithLeader subtracts

Syncs == DOMAIN syncs

SetSync(k, c) == syncs' = [syncs EXCEPT ![k] = c]

\* the clientTime the handler passes on: req.body.clientTime of a POST,
\* parseInt(req.query.clientTime) || Date.now() of a GET
ClientTimeOf(c, t) ==
  IF c.method = "GET" /\ c.clientTime = 0 THEN DateNow(t)
  ELSE DateNow(c.clientTime)

\* this.servers.find(s => s.id !== this.serverId)
leader(n) == Head(OtherServers(n))

\* a client of the cluster sends POST or GET /api/clock-sync to node p
ClientSync(p, method, clientTime) ==
  /\ syncs' = Append(syncs, SyncCall(0, p, method, clientTime))
  /\ ev' = Ev("syncPost", 0, p, Len(syncs) + 1, TRUE)
  /\ UNCHANGED <<up, clockOffset, storeVars>>
  /\ UNCHANGED besideClock

\* syncWithLeader at node n up to its await: a leader returns at once
SyncWithLeader(n) ==
  /\ up[n]
  /\ IF isLeader[n]
     THEN /\ UNCHANGED syncs
          /\ ev' = Ev("syncSkip", n, 0, 0, FALSE)
     ELSE /\ syncs' = Append(syncs, SyncCall(n, leader(n), "GET", now))
          /\ ev' = Ev("syncGet", n, leader(n), Len(syncs) + 1, TRUE)
  /\ UNCHANGED <<up, clockOffset, storeVars>>
  /\ UNCHANGED besideClock

\* the handler of /api/clock-sync at the called node, d milliseconds after
\* the last read of the clock; the clock ticks `tick` between the two
\* Date.now() of performClockSync
ClockSyncStep(k, d, tick) ==
  LET c == syncs[k]
      t == now + d
  IN /\ c.pc = "sent"
     /\ up[c.to]
     /\ t + tick <= MaxTime
     /\ now' = t + tick
     /\ SetSync(k, [c EXCEPT !.pc = "replied", !.handledAt = t,
                      !.res = performClockSync(ClientTimeOf(c, t), DateNow(t),
                                DateNow(t + tick), clockOffset[c.to])])
     /\ ev' = Ev("clockSync", c.to, c.caller, k, TRUE)
     /\ UNCHANGED <<up, clockOffset>>
     /\ UNCHANGED <<dbFile, bookings, slots, reqs, orphans, nrfail, nrstop, ndberr>>
     /\ UNCHANGED besideClock

\* the client of the cluster reads the response
ClientReply(k, d) ==
  LET c == syncs[k]
  IN /\ c.pc = "replied"
     /\ c.caller = 0
     /\ now + d <= MaxTime
     /\ now' = now + d
     /\ SetSync(k, [c EXCEPT !.pc = "done", !.endTime = now + d])
     /\ ev' = Ev("syncShown", 0, c.to, k, TRUE)
     /\ UNCHANGED <<up, clockOffset>>
     /\ UNCHANGED <<dbFile, bookings, slots, reqs, orphans, nrfail, nrstop, ndberr>>
     /\ UNCHANGED besideClock

\* variant: the rtt of the response is used instead of the measured one
LeaderReply_ResponderRtt(k, d, tick) ==
  LET c == syncs[k]
      endTime == now + d
      rtt == c.res.rtt
      serverTime == c.res.serverTime
      adjustedTime == serverTime + Half(rtt)
  IN /\ c.pc = "replied"
     /\ c.caller # 0 /\ up[c.caller]
     /\ endTime + tick <= MaxTime
     /\ now' = endTime + tick
     /\ clockOffset' = [clockOffset EXCEPT
                          ![c.caller] = adjustedTime - DateNow(endTime + tick)]
     /\ SetSync(k, [c EXCEPT !.pc = "done", !.endTime = endTime, !.rtt = rtt,
                      !.setAt = endTime + tick])
     /\ ev' = Ev("syncSet", c.caller, c.to, k, TRUE)
     /\ UNCHANGED up
     /\ UNCHANGED <<dbFile, bookings, slots, reqs, orphans, nrfail, nrstop, ndberr>>
     /\ UNCHANGED besideClock

\* syncWithLeader after its await: endTime, rtt, adjustedTime, and
\* this.clockOffset = adjustedTime - Date.now()
LeaderReply(k, d, tick) ==
  LET c == syncs[k]
      endTime == now + d
      rtt == DateNow(endTime) - DateNow(c.sentAt)
      serverTime == c.res.serverTime
      adjustedTime == serverTime + Half(rtt)
  IN /\ c.pc = "replied"
     /\ c.caller # 0 /\ up[c.caller]
     /\ endTime + tick <= MaxTime
     /\ now' = endTime + tick
     /\ clockOffset' = [clockOffset EXCEPT
                          ![c.caller] = adjustedTime - DateNow(endTime + tick)]
     /\ SetSync(k, [c EXCEPT !.pc = "done", !.endTime = endTime, !.rtt = rtt,
                      !.setAt = endTime + tick])
     /\ ev' = Ev("syncSet", c.caller, c.to, k, TRUE)
     /\ UNCHANGED up
     /\ UNCHANGED <<dbFile, bookings, slots, reqs, orphans, nrfail, nrstop, ndberr>>
     /\ UNCHANGED besideClock

\* the called node is not running: the get or post is refused
SyncDown(k) ==
  LET c == syncs[k]
  IN /\ c.pc = "sent"
     /\ ~up[c.to]
     /\ c.caller # 0 => up[c.caller]
     /\ SetSync(k, [c EXCEPT !.pc = "failed"])
     /\ ev' = Ev("syncDown", c.caller, c.to, k, FALSE)
     /\ UNCHANGED <<up, clockOffset, storeVars>>
     /\ UNCHANGED besideClock

\* variant: a failed sync falls back to the offset of the constructor
SyncTimeout_Reset(k) ==
  LET c == syncs[k]
  IN /\ c.pc \in {"sent", "replied"}
     /\ up[c.to]
     /\ c.caller # 0 /\ up[c.caller]
     /\ SetSync(k, [c EXCEPT !.pc = "failed"])
     /\ ev' = Ev("syncTimeout", c.caller, c.to, k, FALSE)
     /\ clockOffset' = [clockOffset EXCEPT ![c.caller] = 0]
     /\ UNCHANGED <<up, storeVars>>
     /\ UNCHANGED besideClock

\* no response within the timeout of the caller
SyncTimeout(k) ==
  LET c == syncs[k]
  IN /\ c.pc \in {"sent", "replied"}
     /\ up[c.to]
     /\ c.caller # 0 => up[c.caller]
     /\ SetSync(k, [c EXCEPT !.pc = "failed"])
     /\ ev' = Ev("syncTimeout", c.caller, c.to, k, FALSE)
     /\ UNCHANGED <<up, clockOffset, storeVars>>
     /\ UNCHANGED besideClock

\* clientTime of a request of a client: its Date.now(), or none
ClientTimes == {0, now}

\* calls of /api/clock-sync by clients and by nodes; a node may have stopped
\* before the first of them
ClockNext ==
  \/ \E p \in Servers, m \in {"GET", "POST"}, t \in ClientTimes :
       Len(syncs) < MaxSyncs /\ ClientSync(p, m, t)
  \/ \E n \in Servers : Len(syncs) < MaxSyncs /\ SyncWithLeader(n)
  \/ \E k \in Syncs, d \in Delays, tick \in Ticks : ClockSyncStep(k, d, tick)
  \/ \E k \in Syncs, d \in Delays : ClientReply(k, d)
  \/ \E k \in Syncs, d \in Delays, tick \in Ticks : LeaderReply(k, d, tick)
  \/ \E k \in Syncs : SyncDown(k)
  \/ \E k \in Syncs : SyncTimeout(k)
  \/ \E n \in Servers : syncs = <<>> /\ StopNode(n)

\* the election layer at rest after the round that an election request to
\* node 3 opened: node 3 leads and every node has applied its leader-update
Elected ==
  /\ up = [n \in Servers |-> TRUE]
  /\ isLeader = [n \in Servers |-> n = 3]
  /\ timers = [n \in Servers |-> 0]
  /\ tasks = EmptyBag
  /\ dbIsLeader = [n \in Servers |-> n = 3]
  /\ dbStatus = [n \in Servers |-> "active"]
  /\ shutdownPost = {}
  /\ ntrig = 1 /\ nfail = 0 /\ nstop = 0
  /\ cleanRound = TRUE
  /\ roundOrigin = 3
  /\ ev = Ev("dbSet", 2, 0, 3, TRUE)

\* the cluster as started, or after it has elected node 3
ClockInit ==
  (ElectionInit \/ Elected) /\ StoreInit(OneFile) /\ SyncInit /\ StatusInit /\ OuterInit

ClockSpec == ClockInit /\ [][ClockNext]_vars

\* clientTime of a client that sends the same request again
RepeatTime == 1
\* the node that it sends them to, and whose clock is being synchronized
RepeatNode == 1

\* a client repeats its POST /api/clock-sync with one clientTime while nodes
\* synchronize their clocks; every call is answered
RepeatNext ==
  \/ Len(syncs) < MaxRepeat /\ ClientSync(RepeatNode, "POST", RepeatTime)
  \/ Len(syncs) < MaxRepeat /\ SyncWithLeader(RepeatNode)
  \/ \E k \in Syncs, d \in Delays, tick \in Ticks : ClockSyncStep(k, d, tick)
  \/ \E k \in Syncs, d \in Delays : ClientReply(k, d)
  \/ \E k \in Syncs, d \in Delays, tick \in Ticks : LeaderReply(k, d, tick)

RepeatSpec == Init /\ [][RepeatNext]_vars

(* ====================================================================== *)
(*                 connections, heartbeat, status snapshot                *)
(* ====================================================================== *)
Jobs == DOMAIN jobs

SetJob(k, j) == jobs' = [jobs EXCEPT ![k] = j]

\* what an async function of this layer is, and the await it is at
Job(kind, n, pc, size, value) ==
  [kind |-> kind, node |-> n, pc |-> pc,
   size |-> size,       \* requests.length of a batch
   value |-> value,     \* Date.now() handed to updateServerHeartbeat
   rows |-> <<>>,       \* what SELECT * FROM servers returned
   result |-> <<>>]     \* what getServerStatus returned

(* ---------- handleConcurrentRequests and POST /api/concurrent ---------- *)
\* req.body.requests: an array, a value with a length but no map (a string),
\* or nothing
RequestKinds == {"array", "string", "none"}

\* variant: the catch block does not give the connections back
Caught_Leak(c, size) == c + size

\* this.connections += requests.length, then requests.map throws inside the
\* try and the catch block runs this.connections -= requests.length
Caught(c, size) == (c + size) - size

\* POST /api/concurrent at node n up to the await of Promise.all. Without
\* requests, requests.length throws before the counter is touched; for a string
\* requests.map throws inside the try and the catch takes the length off again
HandleConcurrentRequests(n, kind, size) ==
  /\ up[n]
  /\ kind = "none" => size = 0
  /\ connections' = [connections EXCEPT ![n] =
                        CASE kind = "array" -> @ + size
                          [] kind = "string" -> Caught(@, size)
                          [] kind = "none" -> @]
  /\ jobs' = Append(jobs, Job("batch", n, IF kind = "array" THEN "await" ELSE "failed",
                              size, 0))
  /\ ev' = Ev("concurrent", n, 0, Len(jobs) + 1, kind = "array")
  /\ UNCHANGED <<up, lastHeartbeat, dbConnections, dbHeartbeat, probes>>
  /\ UNCHANGED <<outerVars, storeVars, clockVars, electionVars>>

\* every setTimeout of the batch has fired: this.connections -= requests.length
BatchDone(k) ==
  LET j == jobs[k]
  IN /\ j.kind = "batch" /\ j.pc = "await"
     /\ up[j.node]
     /\ connections' = [connections EXCEPT ![j.node] = @ - j.size]
     /\ SetJob(k, [j EXCEPT !.pc = "done"])
     /\ ev' = Ev("batchDone", j.node, 0, k, TRUE)
     /\ UNCHANGED <<up, lastHeartbeat, dbConnections, dbHeartbeat, probes>>
     /\ UNCHANGED <<outerVars, storeVars, clockVars, electionVars>>

(* ------------- startHeartbeat and db.updateServerHeartbeat ------------- *)
\* the 5 s interval fires at node n: this.lastHeartbeat = Date.now() = t, and
\* updateServerHeartbeat queues its UPDATE with Date.now() = t2
HeartbeatTick(n, t, t2) ==
  /\ up[n]
  /\ t <= t2
  /\ now' = t2
  /\ lastHeartbeat' = [lastHeartbeat EXCEPT ![n] = t]
  /\ jobs' = Append(jobs, Job("heartbeat", n, "update", 0, t2))
  /\ ev' = Ev("heartbeat", n, 0, Len(jobs) + 1, TRUE)
  /\ UNCHANGED <<up, connections, dbConnections, dbHeartbeat, probes>>
  /\ UNCHANGED <<dbFile, bookings, slots, reqs, orphans, nrfail, nrstop, ndberr>>
  /\ UNCHANGED <<outerVars, clockVars, electionVars>>

\* the statements of one node run in the order they were queued
FirstUpdate(k) ==
  \A i \in Jobs : (i < k /\ jobs[i].kind = "heartbeat" /\ jobs[i].node = jobs[k].node)
                    => jobs[i].pc = "done"

\* variant: the UPDATE has no WHERE clause
SetHeartbeat_AllRows(col, serverId, value) == [s \in Servers |-> value]

\* UPDATE servers SET last_heartbeat = ? WHERE id = ?
SetHeartbeat(col, serverId, value) == [col EXCEPT ![serverId] = value]

\* the UPDATE of db.updateServerHeartbeat runs
UpdateServerHeartbeat(k) ==
  LET j == jobs[k]
  IN /\ j.kind = "heartbeat" /\ j.pc = "update"
     /\ up[j.node]
     /\ FirstUpdate(k)
     /\ dbHeartbeat' = SetHeartbeat(dbHeartbeat, j.node, j.value)
     /\ SetJob(k, [j EXCEPT !.pc = "done"])
     /\ ev' = Ev("dbHeartbeat", j.node, 0, k, TRUE)
     /\ UNCHANGED <<up, connections, lastHeartbeat, dbConnections, probes>>
     /\ UNCHANGED <<outerVars, storeVars, clockVars, electionVars>>

(* ---------------- getServerStatus and GET /api/servers ----------------- *)
\* db.getAllServers(): SELECT * FROM servers
getAllServers ==
  [s \in Servers |-> [id |-> s, connections |-> dbConnections[s],
                      is_leader |-> IF dbIsLeader[s] THEN 1 ELSE 0,
                      last_heartbeat |-> dbHeartbeat[s], status |-> dbStatus[s]]]

\* DistributedManager.getServerStatus at node n: servers.map(...)
getServerStatus(n, rows) ==
  [s \in Servers |->
     [id |-> rows[s].id,
      connections |-> IF rows[s].id = n THEN connections[n] ELSE rows[s].connections,
      isLeader |-> rows[s].is_leader = 1,
      lastHeartbeat |-> rows[s].last_heartbeat,
      status |-> rows[s].status,
      clockOffset |-> IF rows[s].id = n THEN clockOffset[n] ELSE 0]]

\* GET /api/servers arrives at node n: getServerStatus queues its SELECT
GetServers(n) ==
  /\ up[n]
  /\ jobs' = Append(jobs, Job("snapshot", n, "select", 0, 0))
  /\ ev' = Ev("servers", n, 0, Len(jobs) + 1, TRUE)
  /\ UNCHANGED <<up, connections, lastHeartbeat, dbConnections, dbHeartbeat, probes>>
  /\ UNCHANGED <<outerVars, storeVars, clockVars, electionVars>>

\* the SELECT runs
SelectServers(k) ==
  LET j == jobs[k]
  IN /\ j.kind = "snapshot" /\ j.pc = "select"
     /\ up[j.node]
     /\ SetJob(k, [j EXCEPT !.pc = "map", !.rows = getAllServers])
     /\ ev' = Ev("select", j.node, 0, k, TRUE)
     /\ UNCHANGED <<up, connections, lastHeartbeat, dbConnections, dbHeartbeat, probes>>
     /\ UNCHANGED <<outerVars, storeVars, clockVars, electionVars>>

\* getServerStatus goes on after its await and returns the snapshot
MapServers(k) ==
  LET j == jobs[k]
  IN /\ j.kind = "snapshot" /\ j.pc = "map"
     /\ up[j.node]
     /\ SetJob(k, [j EXCEPT !.pc = "done", !.result = getServerStatus(j.node, j.rows)])
     /\ ev' = Ev("snapshot", j.node, 0, k, TRUE)
     /\ UNCHANGED <<up, connections, lastHeartbeat, dbConnections, dbHeartbeat, probes>>
     /\ UNCHANGED <<outerVars, storeVars, clockVars, electionVars>>

\* batches, heartbeats and snapshots of the running nodes
StatusNext ==
  \/ \E n \in Servers, kind \in RequestKinds, size \in 0 .. MaxBatch :
       Len(jobs) < MaxJobs /\ HandleConcurrentRequests(n, kind, size)
  \/ \E k \in Jobs : BatchDone(k)
  \/ \E n \in Servers, t \in Clock, t2 \in Clock :
       Len(jobs) < MaxJobs /\ HeartbeatTick(n, t, t2)
  \/ \E k \in Jobs : UpdateServerHeartbeat(k)
  \/ \E n \in Servers : Len(jobs) < MaxJobs /\ GetServers(n)
  \/ \E k \in Jobs : SelectServers(k)
  \/ \E k \in Jobs : MapServers(k)

StatusSpec == ClockInit /\ [][StatusNext]_vars

(* ====================================================================== *)
(*                     the liveness probe of a leader                     *)
(* ====================================================================== *)
\* the for loop of startLeaderCheck goes on to the next other server, or ends
ProbeNext(n) ==
  probes' = [probes EXCEPT ![n] = IF @ < Len(OtherServers(n)) THEN @ + 1 ELSE 0]

\* variant: a probe that fails arms the election timer of the node
ProbeFailed_Reelect(n) ==
  /\ timers' = [timers EXCEPT ![n] = @ + 1]
  /\ UNCHANGED <<up, isLeader, tasks, dbIsLeader, dbStatus, shutdownPost,
                 ntrig, nfail, nstop, cleanRound, roundOrigin>>

\* catch of the probe: "Server ... appears to be down" is logged
ProbeFailed(n) ==
  UNCHANGED <<up, isLeader, timers, tasks, dbIsLeader, dbStatus, shutdownPost,
              ntrig, nfail, nstop, cleanRound, roundOrigin>>

\* the 10 s interval of startLeaderCheck fires at node n while no loop of an
\* earlier tick is running: a follower returns, a leader sends the first get
ProbeTick(n) ==
  /\ up[n]
  /\ probes[n] = 0
  /\ probes' = [probes EXCEPT ![n] = IF isLeader[n] THEN 1 ELSE 0]
  /\ ev' = Ev("probeTick", n, IF isLeader[n] THEN OtherServers(n)[1] ELSE 0, 0,
              isLeader[n])
  /\ UNCHANGED <<up, isLeader, timers, tasks, dbIsLeader, dbStatus, shutdownPost,
                 ntrig, nfail, nstop, cleanRound, roundOrigin>>
  /\ UNCHANGED <<outerVars, storeVars, clockVars>>
  /\ UNCHANGED <<connections, lastHeartbeat, dbConnections, dbHeartbeat, jobs>>

\* GET /api/health of the probed server answers; the loop sends the next get
ProbeAnswered(n) ==
  /\ up[n]
  /\ probes[n] # 0
  /\ up[OtherServers(n)[probes[n]]]
  /\ ProbeNext(n)
  /\ ev' = Ev("health", n, OtherServers(n)[probes[n]], 0, TRUE)
  /\ UNCHANGED <<up, isLeader, timers, tasks, dbIsLeader, dbStatus, shutdownPost,
                 ntrig, nfail, nstop, cleanRound, roundOrigin>>
  /\ UNCHANGED <<outerVars, storeVars, clockVars>>
  /\ UNCHANGED <<connections, lastHeartbeat, dbConnections, dbHeartbeat, jobs>>

\* the probed server is not running
ProbeDown(n) ==
  /\ up[n]
  /\ probes[n] # 0
  /\ ~up[OtherServers(n)[probes[n]]]
  /\ ProbeNext(n)
  /\ ProbeFailed(n)
  /\ ev' = Ev("healthDown", n, OtherServers(n)[probes[n]], 0, FALSE)
  /\ UNCHANGED <<outerVars, storeVars, clockVars>>
  /\ UNCHANGED <<connections, lastHeartbeat, dbConnections, dbHeartbeat, jobs>>

\* the probed server runs but does not answer within 2000 ms
ProbeTimeout(n) ==
  /\ up[n]
  /\ probes[n] # 0
  /\ up[OtherServers(n)[probes[n]]]
  /\ ProbeNext(n)
  /\ ProbeFailed(n)
  /\ ev' = Ev("healthTimeout", n, OtherServers(n)[probes[n]], 0, FALSE)
  /\ UNCHANGED <<outerVars, storeVars, clockVars>>
  /\ UNCHANGED <<connections, lastHeartbeat, dbConnections, dbHeartbeat, jobs>>

\* the probe loop, one get at a time
Probing ==
  \/ \E n \in Servers : ProbeTick(n)
  \/ \E n \in Servers : ProbeAnswered(n)
  \/ \E n \in Servers : ProbeDown(n)
  \/ \E n \in Servers : ProbeTimeout(n)

\* the election layer at rest after node 3 has crashed and the election that
\* a request to node 2 opened has made node 2 the leader
Deputy ==
  /\ up = [n \in Servers |-> n # 3]
  /\ isLeader = [n \in Servers |-> n = 2]
  /\ timers = [n \in Servers |-> 0]
  /\ tasks = EmptyBag
  /\ dbIsLeader = [n \in Servers |-> n = 2]
  /\ dbStatus = [n \in Servers |-> "active"]
  /\ shutdownPost = {}
  /\ ntrig = 1 /\ nfail = 0 /\ nstop = 1
  /\ cleanRound = FALSE
  /\ roundOrigin = 0
  /\ ev = Ev("notifyDown", 2, 3, 2, FALSE)

ProbeInit == Deputy /\ StoreInit(OneFile) /\ SyncInit /\ StatusInit /\ OuterInit

\* the cluster goes on from there: node 3 may be started again, elections may
\* be requested and run, calls may be lost; no further process stops
Recover ==
  \/ \E n \in Servers : TimerFire(n)
  \/ \E t \in TaskSet : AskAnswered(t)
  \/ \E t \in TaskSet : AskDown(t)
  \/ \E t \in TaskSet : SetLeaderClear(t)
  \/ \E t \in TaskSet : SetLeaderSet(t)
  \/ \E t \in TaskSet : UpdateStatus(t)
  \/ \E t \in TaskSet : NotifyDelivered(t)
  \/ \E t \in TaskSet : NotifyDown(t)
  \/ \E t \in TaskSet : LeaderUpdateClear(t)
  \/ \E t \in TaskSet : LeaderUpdateSet(t)
  \/ \E p \in Servers, c \in Candidates : ExternalElection(p, c)
  \/ \E t \in TaskSet, handled \in BOOLEAN : AskTimeout(t, handled)
  \/ \E t \in TaskSet : NotifyLost(t)
  \/ \E t \in TaskSet : NotifyTimeout(t)
  \/ \E n \in Servers : Restart(n)

ProbeSpec == ProbeInit /\ [][Recover \/ Probing]_vars

(* ====================================================================== *)
(*                     the browser app: handleBookAppointment             *)
(* ====================================================================== *)
\* `CONF${Math.random().toString(36).substr(2, 9).toUpperCase()}` of the app.
\* An id of a server, `CONF${uuidv4().substr(0, 9).toUpperCase()}`, ends in
\* the hyphen of the uuid and base 36 has none: the two never coincide, and
\* the ids of the app are numbers that no server draws
AppConfIds == {-2, -3}

\* one call of handleBookAppointment; bookingData.confirmationId is drawn
\* by the app before the request is sent
AppCall(k, confirmationId) ==
  [req |-> k,                        \* its POST /api/bookings
   confirmationId |-> confirmationId, \* bookingData.confirmationId
   pc |-> "await",
   simulated |-> FALSE,  \* the result is the 'Local-Simulation' of the backend
   shown |-> 0,          \* the id in the log line 'Booking confirmed: ...'
   stored |-> 0]         \* the id of the entry added to the bookings list

AppCalls == DOMAIN app

\* what a step of the app leaves alone
besideApp == <<up, electionVars, clockVars, statusVars, manager>>

\* addLog(`Booking confirmed: ${bookingData.confirmationId} ...`)
ShownId(bookingData, result) == bookingData.confirmationId

\* setBookings(prev => [...prev, bookingData])
StoredId(bookingData, result) == bookingData.confirmationId

\* handleBookAppointment up to its await: all fields are filled, bookingData
\* is built, invokeRemoteMethod posts {doctorId, patientName, slotTime} to the
\* next server
HandleBookAppointment(o, doctorId, patientName, slotTime, confirmationId) ==
  /\ ~FieldsMissing(doctorId, patientName, slotTime)
  /\ up[o]
  /\ reqs' = Append(reqs, Request(o, doctorId, patientName, slotTime))
  /\ app' = Append(app, AppCall(Len(reqs) + 1, confirmationId))
  /\ ev' = Ev("appBook", o, 0, Len(reqs) + 1, TRUE)
  /\ UNCHANGED <<dbFile, bookings, slots, orphans, now, nrfail, nrstop, ndberr>>
  /\ UNCHANGED besideApp

\* the answer arrives. 200: result is the body of the server. 400 or 500:
\* fetchWithTimeout throws and invokeRemoteMethod returns a simulated success.
\* Either way result.success holds and the app logs and stores bookingData
AppResult(j) ==
  LET a == app[j]
      r == reqs[a.req]
      result == [success |-> TRUE,
                 confirmationId |-> IF r.status = 200 THEN r.confirmationId ELSE 0]
  IN /\ a.pc = "await"
     /\ r.pc = "done"
     /\ app' = [app EXCEPT ![j] = [a EXCEPT !.pc = "shown",
                                            !.simulated = r.status # 200,
                                            !.shown = ShownId(a, result),
                                            !.stored = StoredId(a, result)]]
     /\ ev' = Ev("appResult", r.origin, 0, a.req, r.status = 200)
     /\ UNCHANGED storeVars
     /\ UNCHANGED besideApp

\* no answer within the 5000 ms of fetchWithTimeout: the fetch is aborted and
\* the result is a simulated success, while the server goes on
AppTimeout(j) ==
  LET a == app[j]
      r == reqs[a.req]
      result == [success |-> TRUE, confirmationId |-> 0]
  IN /\ a.pc = "await"
     /\ r.pc # "done"
     /\ app' = [app EXCEPT ![j] = [a EXCEPT !.pc = "shown",
                                            !.simulated = TRUE,
                                            !.shown = ShownId(a, result),
                                            !.stored = StoredId(a, result)]]
     /\ ev' = Ev("appTimeout", r.origin, 0, a.req, FALSE)
     /\ UNCHANGED storeVars
     /\ UNCHANGED besideApp

AppNext ==
  \/ \E o \in Servers, d \in DoctorIds, p \in PatientNames, s \in SlotTimes, c \in AppConfIds :
       Len(reqs) < MaxBookings /\ HandleBookAppointment(o, d, p, s, c)
  \/ Serve
  \/ \E k \in Requests, t \in Clock : CreateStep(k, TRUE, t)
  \/ \E j \in AppCalls : AppResult(j)
  \/ \E j \in AppCalls : AppTimeout(j)

\* the app books at running nodes that reach each other
AppSpec == BookingInit /\ [][AppNext]_vars

(* ====================================================================== *)
(*                  start-servers.js: the process manager                 *)
(* ====================================================================== *)
\* what a step of the manager leaves alone
besideManager == <<up, electionVars, storeVars, clockVars, statusVars, app>>

\* the servers in the order of this.servers that startAllServers has reached
Unstarted == SelectSeq(servers, LAMBDA n : manager.process[n] = "null")

\* startServer: spawn('node', ['server.js']) emits 'spawn'; after the last
\* server isRunning = true and the handlers of SIGINT and SIGTERM are set
StartServer(n) ==
  /\ manager.pc = "new"
  /\ Unstarted # <<>> /\ n = Head(Unstarted)
  /\ manager' = [manager EXCEPT !.process[n] = "running",
                                !.pc = IF Len(Unstarted) = 1 THEN "running" ELSE "new",
                                !.isRunning = Len(Unstarted) = 1]
  /\ ev' = Ev("spawn", 0, n, 0, TRUE)
  /\ UNCHANGED besideManager

\* spawn emits 'error': startServer rejects, startAllServers rejects and
\* .catch(console.error) logs it; no signal handler is ever set
SpawnFails(n) ==
  /\ manager.pc = "new"
  /\ Unstarted # <<>> /\ n = Head(Unstarted)
  /\ manager' = [manager EXCEPT !.pc = "failed"]
  /\ ev' = Ev("spawnError", 0, n, 0, FALSE)
  /\ UNCHANGED besideManager

\* a child ends by itself (a crash, a port in use) before any shutdown; the
\* listener of startServer logs it if isRunning
ChildExits(n) ==
  /\ manager.process[n] = "running"
  /\ manager' = [manager EXCEPT !.process[n] = "exited"]
  /\ ev' = Ev("childExit", n, 0, 0, manager.isRunning)
  /\ UNCHANGED besideManager

\* shutdown, this.servers.map: a promise that waits for 'exit' for each server
\* whose process is set
Awaited(process) == {n \in Servers : process[n] # "null"}

\* SIGINT or SIGTERM at the manager: shutdown() up to its await; kill('SIGTERM')
\* reaches the children that still run. A further signal calls shutdown()
\* again: its promises wait for the same servers, and those of the first call
\* are resolved whenever its own are
Signal ==
  /\ manager.pc \in {"running", "shutdown"}
  /\ manager.calls < MaxSignals
  /\ manager' = [manager EXCEPT
                   !.pc = "shutdown",
                   !.isRunning = FALSE,
                   !.calls = @ + 1,
                   !.awaited = IF manager.pc = "running"
                               THEN Awaited(manager.process) ELSE @,
                   !.process = [n \in Servers |->
                                  IF @[n] = "running" THEN "sigterm" ELSE @[n]]]
  /\ ev' = Ev("signal", 0, 0, 0, TRUE)
  /\ UNCHANGED besideManager

\* the child's handler of SIGTERM: await distManager.shutdown(), then
\* process.exit(0); the listener of shutdown logs 'stopped' and resolves
ChildStops(n) ==
  /\ manager.process[n] = "sigterm"
  /\ manager' = [manager EXCEPT !.process[n] = "exited",
                                !.stopped = IF n \in manager.awaited
                                            THEN @ \cup {n} ELSE @]
  /\ ev' = Ev("childStop", n, 0, 0, TRUE)
  /\ UNCHANGED besideManager

\* await Promise.all(shutdownPromises) returns: the report, process.exit(0)
Report ==
  /\ manager.pc = "shutdown"
  /\ manager.awaited \subseteq manager.stopped
  /\ manager' = [manager EXCEPT !.pc = "exited", !.reported = TRUE]
  /\ ev' = Ev("goodbye", 0, 0, 0, TRUE)
  /\ UNCHANGED besideManager

\* no child is left and nothing else keeps the event loop of the manager
\* alive: its process ends without a further statement being run
LoopEmpty ==
  /\ manager.pc \in {"running", "shutdown", "failed"}
  /\ \A n \in Servers : manager.process[n] \in {"null", "exited"}
  /\ ~(manager.pc = "shutdown" /\ manager.awaited \subseteq manager.stopped)
  /\ manager' = [manager EXCEPT !.pc = "ended"]
  /\ ev' = Ev("loopEmpty", 0, 0, 0, FALSE)
  /\ UNCHANGED besideManager

\* what the manager and the signalled children do by themselves
ManagerSteps ==
  \/ \E n \in Servers : StartServer(n)
  \/ \E n \in Servers : ChildStops(n)
  \/ Report
  \/ LoopEmpty

ManagerNext ==
  \/ ManagerSteps
  \/ \E n \in Servers : SpawnFails(n)
  \/ \E n \in Servers : ChildExits(n)
  \/ Signal

\* children are spawned, may end by themselves, and the manager is signalled
ManagerSpec == Init /\ [][ManagerNext]_vars /\ WF_vars(ManagerSteps)

(* ====================================================================== *)
(*                       peers that never answer                          *)
(* ====================================================================== *)
\* the election message gets no answer: `timeout: 2000` rejects the post,
\* catch (error) logs "is down", responses++
AskUnanswered(t) ==
  LET n == t.node
      p == HigherServers(n)[t.arg]
  IN /\ t.pc = "ask"
     /\ up[p]
     /\ ContinueElection(t, DelTask(tasks, t))
     /\ ev' = Ev("askTimeout", n, p, n, FALSE)
     /\ UNCHANGED besideElection
     /\ RoundDirty
     /\ UNCHANGED <<up, timers, dbIsLeader, dbStatus, shutdownPost,
                    ntrig, nfail, nstop>>

\* the leader-update gets no answer: `timeout: 1000` rejects the post
NotifyUnanswered(t) ==
  LET n == t.node
      p == OtherServers(n)[t.arg]
  IN /\ t.pc = "notify"
     /\ up[p]
     /\ NotifyFailed(t, DelTask(tasks, t))
     /\ ev' = Ev("notifyLost", n, p, n, FALSE)
     /\ UNCHANGED besideElection
     /\ RoundDirty
     /\ UNCHANGED <<up, isLeader, timers, dbIsLeader, dbStatus, shutdownPost,
                    ntrig, nfail, nstop>>

\* the post of replicateBooking gets no answer: `timeout: 2000`
RbUnanswered(k) ==
  LET r == reqs[k]
  IN /\ r.pc = "rb"
     /\ up[r.origin] /\ up[Peer(r)]
     /\ SetReq(k, RbFailed(r, "lost"))
     /\ ev' = Ev("rbTimeout", r.origin, Peer(r), k, FALSE)
     /\ UNCHANGED <<up, dbFile, bookings, slots, orphans, now, nrfail, nrstop, ndberr>>
     /\ UNCHANGED besideStore

\* the post of replicateSlotUpdate gets no answer: `timeout: 2000`
RsUnanswered(k) ==
  LET r == reqs[k]
  IN /\ r.pc = "rs"
     /\ up[r.origin] /\ up[Peer(r)]
     /\ SetReq(k, RsFailed(r, "lost"))
     /\ ev' = Ev("rsTimeout", r.origin, Peer(r), k, FALSE)
     /\ UNCHANGED <<up, dbFile, bookings, slots, orphans, now, nrfail, nrstop, ndberr>>
     /\ UNCHANGED besideStore

\* what clients ask of the nodes, and the nodes of themselves
SilentCalls ==
  \/ ExternalElection(SilentNode, 0)
  \/ \E d \in DoctorIds, p \in PatientNames, s \in SlotTimes :
       Len(reqs) < MaxBookings /\ PostBooking(SilentNode, d, p, s)
  \/ Len(syncs) < MaxSilentSyncs /\ SyncWithLeader(SilentNode)

\* what the nodes then do while no peer answers any call
SilentSteps ==
  \/ \E n \in Servers : TimerFire(n)
  \/ \E t \in TaskSet : AskUnanswered(t)
  \/ \E t \in TaskSet : SetLeaderClear(t)
  \/ \E t \in TaskSet : SetLeaderSet(t)
  \/ \E t \in TaskSet : UpdateStatus(t)
  \/ \E t \in TaskSet : NotifyUnanswered(t)
  \/ \E k \in Requests : BookSlotStep(k)
  \/ \E k \in Requests, t \in Clock : CreateStep(k, FALSE, t)
  \/ \E k \in Requests : RbUnanswered(k)
  \/ \E k \in Requests : RsUnanswered(k)
  \/ \E k \in Syncs : SyncTimeout(k)

SilentNext == SilentCalls \/ SilentSteps

\* every node runs and no node answers a call of another node; timers fire
\* and timeouts expire
SilentSpec == Init /\ [][SilentNext]_vars /\ WF_vars(SilentSteps)

(* ====================================================================== *)
(*                              properties                                *)
(* ====================================================================== *)
\* the step just taken ran the POST /election handler at node ev'.peer and its
\* reply was read by the caller
Handled == ev'.kind \in {"election", "ask"}

\* the candidate of the step just taken is below the handling node
CandBelow == ev'.cand # undefined /\ ev'.cand < ev'.peer

\* the election loop of node ev'.node that was asking node ev'.peer
AskingTask == Task(ev'.node, "ask", IndexOf(HigherServers(ev'.node), ev'.peer))

\* C1: with no call ever failing or timing out and no node ever stopping, once
\* at least one election was started and nothing of it is in flight any more,
\* exactly one running node has isLeader = true.
C1_ExactlyOneLeader ==
  (cleanRound /\ nfail = 0 /\ nstop = 0 /\ Quiescent) => Cardinality(Leaders) = 1

C1_Witness ==
  cleanRound /\ nfail = 0 /\ nstop = 0 /\ Quiescent /\ Cardinality(Leaders) = 1

C3_Scene ==
  cleanRound /\ roundOrigin = 1 /\ up[1] /\ up[2] /\ ~up[3] /\ isLeader[3]

\* C3: nodes {1,2,3}, node 3 was Leader and is unreachable, node 1 runs an
\* election.  When node 2 answers node 1 it answers alive, node 1's round ends
\* there with its role untouched and node 2 has armed its own election; when
\* the round is over node 2 is Leader and node 1 is Follower.
C3_Scenario ==
  /\ [](C3_Scene /\ Quiescent => isLeader[2] /\ ~isLeader[1])
  /\ [][(C3_Scene /\ ev'.kind = "ask" /\ ev'.node = 1 /\ ev'.peer = 2)
          => /\ ev'.ok
             /\ isLeader'[1] = isLeader[1]
             /\ timers'[2] = timers[2] + 1
             /\ tasks' = DelTask(tasks, AskingTask)]_vars

C3_Witness == C3_Scene /\ Quiescent /\ isLeader[2] /\ ~isLeader[1]

\* C4: in every reachable state at most one running node has isLeader = true.
C4_AtMostOneLeader == Cardinality(Leaders) <= 1

\* C5 (as claimed): when a higher peer replies alive the round ends and the
\* initiating node is Follower, whatever it was before.
C5_AbortLeavesFollower ==
  [][(ev'.kind = "ask" /\ ev'.ok) => ~isLeader'[ev'.node]]_vars

\* C5 (amended): when a higher peer replies alive the round ends there and the
\* initiating node's role is what it was before the reply: Follower stays
\* Follower, Leader stays Leader.
C5_AbortKeepsRole ==
  [][(ev'.kind = "ask" /\ ev'.ok)
       => /\ isLeader'[ev'.node] = isLeader[ev'.node]
          /\ tasks' = DelTask(tasks, AskingTask)
          /\ UNCHANGED <<dbIsLeader, dbStatus>>]_vars

C5_Witness == ev.kind = "ask" /\ ev.ok /\ isLeader[ev.node] /\ up[ev.node]

\* the step just taken ended a becomeLeader call of node n (the last
\* leader-update was answered, failed or timed out)
BecomeLeaderEnds(n) ==
  /\ BagCount(tasks, {t \in TaskSet : t.node = n /\ t.pc \in {"notify", "nwait"}})
       > BagCount(tasks', {t \in BagToSet(tasks') : t.node = n /\ t.pc \in {"notify", "nwait"}})
  /\ up'[n]

NoHigherAlive(n) ==
  \/ ev'.kind = "start" /\ ev'.node = n /\ ev'.ok
  \/ /\ ev'.kind \in {"ask", "askDown", "askTimeout"} /\ ev'.node = n
     /\ ~(ev'.kind = "ask" /\ ev'.ok)
     /\ ev'.peer = HigherServers(n)[Len(HigherServers(n))]

C7_ElectionHandler ==
  [][Handled =>
       /\ ev'.ok <=> CandBelow
       /\ timers'[ev'.peer] = timers[ev'.peer] + (IF CandBelow THEN 1 ELSE 0)
       /\ ~CandBelow => UNCHANGED <<timers, isLeader, tasks, dbIsLeader, dbStatus, up>>
       /\ isLeader'[ev'.peer] = isLeader[ev'.peer]]_vars

C7_Witness ==
  /\ ev.kind = "election" /\ ev.cand >= ev.peer /\ ~ev.ok
  /\ ntrig = 2 /\ \E n \in Servers : timers[n] > 0

\* C8 (as claimed): success = false is the alive reply: it is sent exactly
\* when candidateId < the replying node's id.
C8_FalseMeansAlive ==
  [][Handled => (ev'.ok = FALSE <=> CandBelow)]_vars

\* C8 (amended): success = true is the alive reply: a node sends success = true
\* exactly when candidateId < its own id, and an initiator that receives
\* success = true from a higher peer ends its round at once, while
\* success = false lets it go on to the next peer or to becomeLeader.
C8_TrueMeansAlive ==
  [][/\ Handled => (ev'.ok = TRUE <=> CandBelow)
     /\ ev'.kind = "ask" =>
          IF ev'.ok
          THEN tasks' = DelTask(tasks, AskingTask)
          ELSE tasks' # DelTask(tasks, AskingTask)]_vars

C8_Witness == ev.kind = "ask" /\ ev.ok /\ ev.peer = 3 /\ timers[3] > 0

\* C9: once a Leader has stopped responding, a surviving node eventually is
\* Leader without any external request.
C9_AutomaticReelection ==
  \A n \in Servers :
    (ev.kind = "crash" /\ ev.node = n /\ ev.ok)
      ~> (\E m \in Servers : up[m] /\ isLeader[m])

\* C10: the election request that a gracefully stopping Leader sends makes the
\* peer that receives it start an election.
C10_ShutdownStartsElection ==
  [][(ev'.kind = "election" /\ ev'.node # 0 /\ ev'.cand = undefined)
       => timers'[ev'.peer] = timers[ev'.peer] + 1]_vars

\* the step just taken was a leader-update of node ev'.node to peer ev'.peer
\* that failed: peer down, request lost, or no reply within 1000 ms
NotifyFailure == ev'.kind \in {"notifyDown", "notifyLost", "notifyTimeout"}

\* the step just taken was the reply of peer ev'.node to the leader-update of
\* node ev'.cand, read by that node
NotifyAnswered == ev'.kind = "dbSet" /\ ev'.cand # 0 /\ ev'.ok

\* after the attempt to peer p the loop of node n is at the next other server,
\* or, past the last one, that becomeLeader call is over
LoopGoesOn(n, p) ==
  LET i == IndexOf(OtherServers(n), p)
      loop == {t \in TaskSet \cup BagToSet(tasks') :
                 t.node = n /\ t.pc \in {"notify", "nwait"}}
  IN IF i < Len(OtherServers(n))
     THEN CopiesIn(Task(n, "notify", i + 1), tasks')
            = CopiesIn(Task(n, "notify", i + 1), tasks) + 1
     ELSE BagCount(tasks', loop) = BagCount(tasks, loop) - 1

\* C11: becomeLeader sets isLeader, writes is_leader = 1 for its own row and
\* then posts a leader-update to every other server in list order; a delivery
\* that fails changes neither a role nor the store and the loop goes on to the
\* next server (after the last one becomeLeader returns normally).
C11_BecomeLeader ==
  [][/\ \A n \in Servers : NoHigherAlive(n) => isLeader'[n]
     /\ (ev'.kind = "dbSet" /\ ev'.cand = 0) => dbIsLeader'[ev'.node]
     /\ ev'.kind = "dbStatus"
          => /\ dbIsLeader'[ev'.node]
             /\ CopiesIn(Task(ev'.node, "notify", 1), tasks')
                  = CopiesIn(Task(ev'.node, "notify", 1), tasks) + 1
     /\ NotifyFailure
          => /\ UNCHANGED <<isLeader, dbIsLeader, dbStatus>>
             /\ LoopGoesOn(ev'.node, ev'.peer)
     /\ NotifyAnswered => LoopGoesOn(ev'.cand, ev'.node)]_vars

C11_Witness ==
  /\ ev.kind \in {"notifyDown", "notifyLost", "notifyTimeout"}
  /\ ev.node = 3 /\ ev.peer = 1
  /\ Task(3, "notify", 2) \in TaskSet
  /\ isLeader[3] /\ dbIsLeader[3] /\ up[2]

\* C12: when the handler of a leader-update for newLeaderId has
\* replied, the handling node is Leader exactly if newLeaderId is its own id,
\* and the row of newLeaderId has is_leader = 1.
C12_AfterHandling ==
  [][(ev'.kind = "dbSet" /\ ev'.cand # 0)
       => /\ isLeader'[ev'.node] <=> (ev'.cand = ev'.node)
          /\ dbIsLeader'[ev'.cand]]_vars

(* ---------------------- bookings and replication ---------------------- *)
\* the i-th server that the loops of request r post to
PeerAt(r, i) == OtherServers(r.origin)[i]

\* the database file of that server
FileAt(r, i) == dbFile[PeerAt(r, i)]

Posts(r) == 1 .. Len(OtherServers(r.origin))

\* replicateBooking of request r has returned
RbReturned(r) == Len(r.rb) = Len(OtherServers(r.origin))

\* replicateBooking of request r found exactly one server not running and got
\* its post through to every other one
OnePeerDown(r) ==
  /\ RbReturned(r)
  /\ Cardinality({i \in Posts(r) : r.rb[i] = "down"}) = 1
  /\ \A i \in Posts(r) : r.rb[i] \in {"down", "ok", "rejected", "timeout"}

\* C13: when replicateBooking has run with exactly one of the two peers not
\* running, the file of the peer that was reached holds a row of the booking,
\* no handler serving that call changed the file of the peer that was down, and
\* replicateBooking returned normally (POST /api/bookings went on to
\* replicateSlotUpdate and answers 200), whichever peer was the one down.
C13_OnePeerUnreachable ==
  \A k \in Requests :
    LET r == reqs[k]
    IN OnePeerDown(r) =>
         /\ \A i \in Posts(r) :
              IF r.rb[i] = "down"
              THEN FileAt(r, i) \notin r.touched
              ELSE RowsOf(bookings[FileAt(r, i)], r.confirmationId) # {}
         /\ r.pc \in {"rs", "done", "dead"}
         /\ r.pc = "done" => (r.status = 200 /\ Len(r.rs) = Len(r.rb))

C13_Witness ==
  \E k \in Requests :
    /\ reqs[k].rb = <<"down", "ok">>
    /\ reqs[k].origin = 3
    /\ dbFile = OwnFiles
    /\ bookings[1] = {} /\ slots[1][<<1, reqs[k].slotTime>>]
    /\ RowsOf(bookings[2], k) # {}

\* the INSERT of request r at its origin succeeded
Committed(r) == r.timestamp # 0

\* the rows among `rows` that carry what the origin inserted for request r
OriginRows(r, rows) ==
  {x \in rows :
     /\ x.confirmation_id = r.confirmationId
     /\ x.doctor_id = r.doctorId
     /\ x.patient_name = r.patientName
     /\ x.slot_time = r.slotTime
     /\ x.booking_timestamp = r.timestamp
     /\ x.server_id = r.origin}

\* every post of replicateBooking and replicateSlotUpdate of request r failed
AllPostsFailed(r) ==
  /\ Len(r.rb) = Len(OtherServers(r.origin))
  /\ Len(r.rs) = Len(OtherServers(r.origin))
  /\ \A i \in Posts(r) : r.rb[i] # "ok" /\ r.rs[i] # "ok"

\* C14: once the origin has inserted the booking row, that row and the slot's
\* is_available = 0 stay in the origin's file whatever happens to the
\* replication posts, and the request, when answered, is answered 200.
C14_OriginUnaffected ==
  \A k \in Requests :
    LET r == reqs[k]
        f == dbFile[r.origin]
    IN Committed(r) =>
         /\ OriginRows(r, bookings[f]) # {}
         /\ ~slots[f][<<r.doctorId, r.slotTime>>]
         /\ r.pc \in {"rb", "rbSlot", "rs", "done", "dead"}
         /\ r.pc = "done" => r.status = 200

C14_Witness ==
  \E k \in Requests :
    /\ Committed(reqs[k]) /\ AllPostsFailed(reqs[k])
    /\ reqs[k].pc = "done" /\ reqs[k].status = 200
    /\ OriginRows(reqs[k], bookings[dbFile[reqs[k].origin]]) # {}

\* the step just taken was a post of replicateBooking or replicateSlotUpdate
\* for request k, or a step of the handler serving it
ReplicationStep(k) ==
  /\ ev'.kind \in {"rbApply", "rbReply", "rbDown", "rbTimeout",
                   "rsReply", "rsDown", "rsTimeout"}
  /\ ev'.cand = k

\* the origin's file holds the booking row of request r and its slot is taken
LocallyWritten(r) ==
  /\ Committed(r)
  /\ OriginRows(r, bookings[dbFile[r.origin]]) # {}
  /\ ~slots[dbFile[r.origin]][<<r.doctorId, r.slotTime>>]

\* C15: a replication post for a booking is made only when the origin's file
\* already holds the booking row and has the slot unavailable; a request whose
\* fields are missing, whose slot is not available or whose INSERT fails is
\* answered with an error (400, 400, 500) and no post is ever made for it.
C15_LocalWriteFirst ==
  /\ [](\A k \in Requests :
          LET r == reqs[k]
          IN /\ (r.pc \in {"rb", "rbSlot", "rs"} \/ r.rb # <<>> \/ r.rs # <<>>)
                  => LocallyWritten(r)
             /\ r.status \in {400, 500}
                  => r.pc = "done" /\ r.rb = <<>> /\ r.rs = <<>>)
  /\ [][\A k \in Requests :
          LET r == reqs[k]
              f == dbFile[r.origin]
          IN /\ ReplicationStep(k) => LocallyWritten(r)
             /\ (ev'.kind = "bookSlot" /\ ev'.cand = k
                   /\ ~slots[f][<<r.doctorId, r.slotTime>>])
                  => reqs'[k] = Answer(r, 400) /\ UNCHANGED <<bookings, slots>>
             /\ (ev'.kind = "create" /\ ev'.cand = k /\ ~ev'.ok)
                  => reqs'[k] = Answer(r, 500) /\ UNCHANGED <<bookings, slots>>]_vars

C15_Witness ==
  \E j, k \in Requests :
    /\ reqs[j].status = 400 /\ reqs[j].patientName # "" /\ reqs[j].rb = <<>>
    /\ reqs[k].rb # <<>> /\ LocallyWritten(reqs[k])
    /\ ndberr = 0

\* the step just taken delivered the BookingCreated event of request k to a
\* peer whose file already held a row with its confirmation id
DeliveredAgain(k) ==
  /\ ev'.kind = "rbApply" /\ ev'.cand = k
  /\ RowsOf(bookings[dbFile[ev'.peer]], reqs[k].confirmationId) # {}

\* C16 (as claimed): when a BookingCreated event is applied to a store that
\* already had it applied, the store afterwards holds two booking rows with
\* that confirmationId.
C16_DuplicateRows ==
  [][\A k \in Requests :
       DeliveredAgain(k)
         => Cardinality(RowsOf(bookings'[dbFile[ev'.peer]],
                               reqs[k].confirmationId)) = 2]_vars

\* C16 (amended): when a BookingCreated event is applied to a store that
\* already holds a row with that confirmationId, the INSERT is rejected (the
\* column is UNIQUE), the handler answers 500 without marking the slot, the
\* store is unchanged, and no store ever holds two rows with one
\* confirmationId.
C16_DuplicateRejected ==
  /\ [](\A f \in Servers : \A k \in Requests :
          Cardinality(RowsOf(bookings[f], reqs[k].confirmationId)) <= 1)
  /\ [][\A k \in Requests :
          DeliveredAgain(k)
            => /\ ~ev'.ok
               /\ UNCHANGED <<bookings, slots>>
               /\ reqs'[k].rb = Append(reqs[k].rb, "rejected")
               /\ reqs'[k].pc # "rbSlot"]_vars

C16_Witness ==
  \E k \in Requests :
    /\ reqs[k].rb = <<"rejected", "rejected">>
    /\ dbFile = OneFile
    /\ Cardinality(RowsOf(bookings[1], reqs[k].confirmationId)) = 1

\* C17: when a peer applies a BookingCreated event, the row it inserts has the
\* doctorId, patientName, slotTime, confirmationId, bookingTimestamp and origin
\* server id of the origin's row, and when its handler has replied the slot is
\* unavailable in the peer's store.
C17_SameMutation ==
  [][\A k \in Requests :
       LET r == reqs[k]
           f == dbFile[ev'.peer]
       IN /\ (ev'.kind = "rbApply" /\ ev'.cand = k /\ ev'.ok)
               => OriginRows(r, bookings'[f] \ bookings[f]) # {}
          /\ (ev'.kind = "rbReply" /\ ev'.cand = k)
               => ~slots'[f][<<r.doctorId, r.slotTime>>]]_vars

\* every request that a node has read is answered
Quiet == \A k \in Requests : reqs[k].pc = "done"

\* every post of every replicate call came back with a 2xx answer
NoCallFailed ==
  \A k \in Requests :
    /\ \A i \in DOMAIN reqs[k].rb : reqs[k].rb[i] = "ok"
    /\ \A i \in DOMAIN reqs[k].rs : reqs[k].rs[i] = "ok"

\* the confirmation ids of the bookings in file f
ConfIds(f) == {x.confirmation_id : x \in bookings[f]}

\* the slots of file f with is_available = 0
Unavailable(f) == {s \in SeededSlots : ~slots[f][s]}

\* C18: if no inter-node call fails, then once every replicate call issued
\* for the accepted bookings has returned, every node's store holds the same
\* set of bookings (by confirmationId) and the same set of unavailable slots.
C18_Converge ==
  (Quiet /\ NoCallFailed)
    => \A n, m \in Servers :
         /\ ConfIds(dbFile[n]) = ConfIds(dbFile[m])
         /\ Unavailable(dbFile[n]) = Unavailable(dbFile[m])

\* C19: a peer that was unreachable during the origin's replicate call for an
\* event never receives that event: in every later state that peer's store
\* lacks the booking.
C19_NeverReceives ==
  \A k \in Requests :
    \A i \in DOMAIN reqs[k].rb :
      reqs[k].rb[i] = "down"
        => RowsOf(bookings[FileAt(reqs[k], i)], reqs[k].confirmationId) = {}

(* ------------------------ clock synchronization ------------------------ *)
\* x milliseconds
Ms(x) == Scale * x

\* the caller of sync k sent its own clock as clientTime, read the response
\* `roundTrip` ms later, and the responder's clockOffset was 0
RoundTripOf(k, roundTrip) ==
  LET c == syncs[k]
  IN /\ c.pc = "done"
     /\ c.clientTime = c.sentAt
     /\ c.endTime - c.sentAt = roundTrip
     /\ c.res.clockOffset = 0

\* C20: with a 40 ms round trip and the responder's clock equal to the
\* caller's (zero offset), the sync of clientTime T reports rtt = 40 and
\* adjustedTime = T + 40, to within a millisecond.
C20_RoundTrip40 ==
  \A k \in Syncs :
    RoundTripOf(k, 40)
      => /\ syncs[k].res.rtt = Ms(40)
         /\ syncs[k].res.adjustedTime - Ms(syncs[k].clientTime + 40)
              \in (- Ms(1)) .. Ms(1)

\* the step just taken ran the /api/clock-sync handler for sync k
SyncHandled(k) == ev'.kind = "clockSync" /\ ev'.cand = k

\* C21: for every clientTime, local clock value and local offset,
\* performClockSync returns serverTime = local clock + local offset,
\* adjustedTime = serverTime + rtt/2, and clockOffset equal to the responder's
\* current offset.
C21_SyncResult ==
  [][\A k \in Syncs :
       SyncHandled(k)
         => LET c == syncs'[k]
            IN /\ c.res.serverTime = DateNow(c.handledAt) + clockOffset[c.to]
               /\ 2 * (c.res.adjustedTime - c.res.serverTime) = c.res.rtt
               /\ c.res.clockOffset = clockOffset[c.to]]_vars

C21_Witness ==
  \E k \in Syncs :
    /\ syncs[k].pc = "replied"
    /\ syncs[k].res.clockOffset # 0
    /\ syncs[k].res.rtt # 0
    /\ syncs[k].res.adjustedTime # syncs[k].res.serverTime

\* sync k was handled, and the clock did not tick inside performClockSync
HandledAtOnce(k) ==
  LET c == syncs[k]
  IN /\ c.pc \in {"replied", "done"}
     /\ c.res.rtt + ClientTimeOf(c, c.handledAt) = c.res.serverTime

\* j and k are calls of one node with the same clientTime, k sent after j,
\* both handled while the clock of the node showed the same millisecond
Repeated(j, k) ==
  /\ j < k
  /\ HandledAtOnce(j) /\ HandledAtOnce(k)
  /\ syncs[j].caller = 0 /\ syncs[k].caller = 0
  /\ syncs[j].to = syncs[k].to
  /\ ClientTimeOf(syncs[j], syncs[j].handledAt)
       = ClientTimeOf(syncs[k], syncs[k].handledAt)
  /\ syncs[j].handledAt = syncs[k].handledAt

\* C22: repeated calls of performClockSync with the same clientTime against a
\* clock that does not advance return a non-decreasing serverTime, and
\* identical results when the offset did not change between them.
C22_Repeatable ==
  \A j, k \in Syncs :
    Repeated(j, k)
      => /\ syncs[k].res.serverTime >= syncs[j].res.serverTime
         /\ syncs[k].res.clockOffset = syncs[j].res.clockOffset
              => syncs[k].res = syncs[j].res

\* C22 as amended: repeated calls with the same clientTime against a clock
\* that does not advance return identical results when the clockOffset of the
\* node is the same at both calls; serverTime moves with the clockOffset.
C22_RepeatableSameOffset ==
  \A j, k \in Syncs :
    Repeated(j, k)
      => /\ syncs[k].res.clockOffset = syncs[j].res.clockOffset
              => syncs[k].res = syncs[j].res
         /\ syncs[k].res.serverTime - syncs[j].res.serverTime
              = syncs[k].res.clockOffset - syncs[j].res.clockOffset

C22_Witness ==
  \E j, k \in Syncs :
    /\ Repeated(j, k)
    /\ syncs[j].res.clockOffset # 0
    /\ syncs[k].res = syncs[j].res

\* the step just taken ended the syncWithLeader that sent sync k
SyncSet(k) == ev'.kind = "syncSet" /\ ev'.cand = k

\* C23: after a sync client has read the response of its reference node, its
\* clockOffset is adjustedTime minus its own local clock, where adjustedTime is
\* the responder's serverTime plus half the round trip the client measured.
C23_ClientOffset ==
  [][\A k \in Syncs :
       SyncSet(k)
         => LET c == syncs'[k]
                measured == DateNow(c.endTime) - DateNow(c.sentAt)
            IN 2 * (clockOffset'[c.caller] + DateNow(c.setAt) - c.res.serverTime)
                 = measured]_vars

C23_Witness ==
  \E k \in Syncs :
    /\ ev.kind = "syncSet" /\ ev.cand = k
    /\ syncs[k].endTime - syncs[k].sentAt = 40
    /\ syncs[k].res.rtt # Ms(40)
    /\ clockOffset[syncs[k].caller] # 0

\* the step just taken made the get of syncWithLeader for sync k fail
SyncFailed(k) ==
  /\ ev'.kind \in {"syncDown", "syncTimeout"} /\ ev'.cand = k
  /\ syncs[k].caller # 0

\* C24: when a clock synchronization attempt fails because the reference node
\* is unreachable or times out, the clockOffset of the node keeps its previous
\* value and no error reaches the caller: syncWithLeader returns, the node
\* runs on, and a response that comes later changes nothing.
C24_SyncUnavailable ==
  /\ [][\A k \in Syncs :
          SyncFailed(k)
            => /\ UNCHANGED <<clockOffset, up, isLeader, now>>
               /\ syncs'[k] = [syncs[k] EXCEPT !.pc = "failed"]
               /\ \A j \in Syncs \ {k} : syncs'[j] = syncs[j]]_vars
  /\ [][\A k \in Syncs : syncs[k].pc = "failed" => syncs'[k] = syncs[k]]_vars

C24_Witness ==
  \E k \in Syncs :
    /\ ev.kind = "syncTimeout" /\ ev.cand = k
    /\ syncs[k].caller # 0
    /\ syncs[k].pc = "failed"
    /\ clockOffset[syncs[k].caller] # 0

(* ---------------- connections, heartbeat, status snapshot -------------- *)
\* the step just taken returned the snapshot of job k
Snapshot(k) == ev'.kind = "snapshot" /\ ev'.cand = k

\* C25: in every snapshot a node returns, the entry for the node itself shows
\* its live isLeader, connections and clockOffset at the time of the call, and
\* the entries of the other nodes come from the store.
C25_OwnEntryLive ==
  [][\A k \in Jobs :
       Snapshot(k)
         => LET n == jobs[k].node
                rows == jobs[k].rows
                snap == jobs'[k].result
            IN /\ snap[n].isLeader = isLeader[n]
               /\ snap[n].connections = connections[n]
               /\ snap[n].clockOffset = clockOffset[n]
               /\ \A s \in Servers \ {n} :
                    /\ snap[s].isLeader = (rows[s].is_leader = 1)
                    /\ snap[s].connections = rows[s].connections
                    /\ snap[s].lastHeartbeat = rows[s].last_heartbeat
                    /\ snap[s].status = rows[s].status]_vars

\* the step just taken was a tick of the heartbeat interval of node n, or the
\* UPDATE that such a tick queued
Beat(n) == ev'.kind \in {"heartbeat", "dbHeartbeat"} /\ ev'.node = n

\* C26: a self-heartbeat tick updates only the lastHeartbeat of the node's own
\* id, in memory and in the store: the rows of the other nodes and the node's
\* own role, leader flag, status and connections are unchanged, and the
\* lastHeartbeat of a node never decreases.
C26_HeartbeatFrame ==
  /\ [][\A n \in Servers :
          Beat(n)
            => /\ \A s \in Servers \ {n} :
                    /\ lastHeartbeat'[s] = lastHeartbeat[s]
                    /\ dbHeartbeat'[s] = dbHeartbeat[s]
               /\ UNCHANGED <<isLeader, connections, clockOffset, up>>
               /\ UNCHANGED <<dbIsLeader, dbStatus, dbConnections>>
               /\ ev'.kind = "heartbeat" => UNCHANGED dbHeartbeat
               /\ ev'.kind = "dbHeartbeat" => UNCHANGED lastHeartbeat]_vars
  /\ [][\A n \in Servers :
          /\ lastHeartbeat'[n] >= lastHeartbeat[n]
          /\ dbHeartbeat'[n] >= dbHeartbeat[n]]_vars

C26_Witness ==
  /\ ev.kind = "dbHeartbeat"
  /\ dbHeartbeat[ev.node] = 2 /\ lastHeartbeat[ev.node] = 2
  /\ \E s \in Servers \ {ev.node} : dbHeartbeat[s] = 1 /\ lastHeartbeat[s] = 1

\* the requests of the batches among jobs 1 .. k that node n is processing
RECURSIVE InFlight(_, _)
InFlight(k, n) ==
  IF k = 0 THEN 0
  ELSE InFlight(k - 1, n)
         + (IF jobs[k].kind = "batch" /\ jobs[k].node = n /\ jobs[k].pc = "await"
            THEN jobs[k].size ELSE 0)

\* the step just taken ended batch k: its Promise.all resolved, or it threw
\* before it could await
BatchEnded(k) ==
  /\ ev'.cand = k
  /\ \/ ev'.kind = "batchDone"
     \/ ev'.kind = "concurrent" /\ ~ev'.ok

Contact(n) == probes'[n] # 0 /\ probes'[n] # probes[n]

\* the step just taken was a probe of node n that failed
FailedProbe(n) == ev'.kind \in {"healthDown", "healthTimeout"} /\ ev'.node = n

\* a failed probe changes no role, no leader record of the store, no clock
\* offset, and starts no election
ProbeHarmless ==
  [][\A n \in Servers :
       FailedProbe(n)
         => /\ UNCHANGED <<isLeader, dbIsLeader, dbStatus, clockOffset, up>>
            /\ UNCHANGED <<timers, tasks, shutdownPost>>]_vars

\* C27: the periodic liveness probe contacts peers only while the role of the
\* node is Leader, and a failed probe changes nothing: no role, no leader
\* record of the store, no clock offset, and no election is started.
C27_ProbeWhileLeader ==
  /\ [][\A n \in Servers : Contact(n) => isLeader[n]]_vars
  /\ ProbeHarmless

\* C27 as amended: a round of probes begins only at a tick at which the role
\* of the node is Leader, and a tick at a follower contacts nobody; a round
\* that has begun contacts every other server, whatever the role becomes;
\* a failed probe changes nothing.
C27_ProbeRoundOfLeader ==
  /\ [][\A n \in Servers :
          /\ (Contact(n) /\ probes[n] = 0)
               => (isLeader[n] /\ ev'.kind = "probeTick")
          /\ (ev'.kind = "probeTick" /\ ev'.node = n /\ ~isLeader[n])
               => probes'[n] = 0
          /\ (probes[n] # 0 /\ probes'[n] # probes[n] /\ up'[n])
               => probes'[n] = IF probes[n] < Len(OtherServers(n))
                               THEN probes[n] + 1 ELSE 0]_vars
  /\ ProbeHarmless

C27_Witness ==
  /\ ev.kind = "healthDown"
  /\ isLeader[ev.node] /\ up[ev.node]
  /\ probes[ev.node] = 0
  /\ timers = [n \in Servers |-> 0] /\ tasks = EmptyBag

(* ------------------------- order of the contacts ---------------------- *)
\* the number of rounds of node n that await the reply of their i-th peer
Asks(b, n, i) == IF Task(n, "ask", i) \in DOMAIN b THEN b[Task(n, "ask", i)] ELSE 0

\* the step just taken ended the contact of a round of node n with its i-th peer
AskEnded(n, i) ==
  /\ ev'.kind \in {"ask", "askDown", "askTimeout"}
  /\ ev'.node = n
  /\ ev'.peer = HigherServers(n)[i]

\* C29: within one round of the election the higher-id peers are contacted one
\* at a time in ascending order of id, each at most once (a failed contact is
\* not retried), and no peer is contacted after the first alive reply.
C29_AscendingOnce ==
  [][\A n \in Servers :
       LET hs == HigherServers(n)
           I == 1..Len(hs)
       IN /\ \A i, j \in I : i < j => hs[i] < hs[j]
          /\ (ev'.kind = "start" /\ ev'.node = n)
               => \A i \in I :
                    Asks(tasks', n, i) = Asks(tasks, n, i) + (IF i = 1 THEN 1 ELSE 0)
          /\ \A i \in I :
               AskEnded(n, i)
                 => \A j \in I :
                      Asks(tasks', n, j)
                        = Asks(tasks, n, j)
                            - (IF j = i THEN 1 ELSE 0)
                            + (IF j = i + 1 /\ ~(ev'.kind = "ask" /\ ev'.ok)
                               THEN 1 ELSE 0)
          /\ (~(ev'.kind = "start" /\ ev'.node = n) /\ \A i \in I : ~AskEnded(n, i))
               => \A i \in I : Asks(tasks', n, i) <= Asks(tasks, n, i)]_vars

C29_Witness ==
  /\ ev = Ev("ask", 1, 3, 1, TRUE)
  /\ ~up[2]
  /\ \A i \in 1..2 : Asks(tasks, 1, i) = 0
  /\ ~isLeader[1]

(* ------------------------ one attempt per peer ------------------------ *)
\* the nodes other than o, and the i-th of them by id
OtherNodes(o) == Servers \ {o}

NthOther(o, i) ==
  CHOOSE s \in OtherNodes(o) : Cardinality({x \in OtherNodes(o) : x < s}) = i - 1

\* the step just taken ended a post of replicateBooking of request k: the
\* peer answered, refused or was too late, or its process ended at work
RbEnded(k) ==
  \/ /\ ev'.cand = k
     /\ \/ ev'.kind \in {"rbReply", "rbDown", "rbTimeout"}
        \/ ev'.kind = "rbApply" /\ ~ev'.ok
  \/ /\ ev'.kind = "stop"
     /\ reqs[k].pc = "rbSlot"
     /\ ev'.node # reqs[k].origin
     /\ ev'.node = Peer(reqs[k])

\* the step just taken ended a post of replicateSlotUpdate of request k
RsEnded(k) == ev'.cand = k /\ ev'.kind \in {"rsReply", "rsDown", "rsTimeout"}

\* the caller and the peer of the post that the step just taken ended
PostCaller == IF ev'.kind = "stop" THEN 0 ELSE ev'.node

PostPeer == IF ev'.kind = "stop" THEN ev'.node ELSE ev'.peer

\* C30: every replicate call issues exactly one delivery attempt to each node
\* other than the caller and none to the caller, and the failure of one
\* attempt does not prevent the attempts to the remaining peers: the i-th
\* attempt goes to the i-th other node, and however it ends the next attempt
\* follows, until each other node has had one.
C30_OneAttemptEach ==
  [][\A k \in Requests :
       LET r == reqs[k]
           q == reqs'[k]
           N == Cardinality(OtherNodes(r.origin))
       IN /\ RbEnded(k)
            => /\ Len(q.rb) = Len(r.rb) + 1 /\ Len(q.rb) <= N
               /\ PostCaller \in {0, r.origin}
               /\ PostPeer = NthOther(r.origin, Len(q.rb))
               /\ IF Len(q.rb) < N
                  THEN q.pc = "rb" /\ q.i = Len(q.rb) + 1
                  ELSE q.pc = "rs" /\ q.i = 1 /\ q.rs = <<>>
          /\ RsEnded(k)
            => /\ Len(q.rs) = Len(r.rs) + 1 /\ Len(q.rs) <= N
               /\ Len(r.rb) = N /\ q.rb = r.rb
               /\ PostCaller = r.origin
               /\ PostPeer = NthOther(r.origin, Len(q.rs))
               /\ IF Len(q.rs) < N
                  THEN q.pc = "rs" /\ q.i = Len(q.rs) + 1
                  ELSE q.pc = "done" /\ q.status = 200
          /\ ~RbEnded(k) => q.rb = r.rb
          /\ ~RsEnded(k) => q.rs = r.rs]_vars

C30_Witness ==
  \E k \in Requests :
    /\ reqs[k].pc = "done" /\ reqs[k].status = 200
    /\ reqs[k].origin = 2
    /\ reqs[k].rb = <<"down", "ok">>
    /\ reqs[k].rs = <<"lost", "ok">>

(* ------------------------- calls that must end ------------------------ *)
\* node n is inside performBullyElection, becomeLeader or the broadcast of
\* notifyServersOfNewLeader
RoundRunning(n) ==
  \E t \in TaskSet :
    t.node = n /\ t.pc \in {"ask", "setLeader1", "setLeader2", "updStatus", "notify", "nwait"}

\* the number of broadcasts of node n that await the reply of their i-th peer
Notifies(b, n, i) == IF Task(n, "notify", i) \in DOMAIN b THEN b[Task(n, "notify", i)] ELSE 0

\* request k is inside replicateBooking or replicateSlotUpdate
Replicating(k) == k \in Requests /\ reqs[k].pc \in {"rb", "rbSlot", "rs"}

\* call k of /api/clock-sync awaits its response
SyncAwaited(k) == k \in Syncs /\ syncs[k].pc \in {"sent", "replied"}

\* request k was answered 200: both replicate calls have returned
Answered200(k) == k \in Requests /\ reqs[k].pc = "done" /\ reqs[k].status = 200

\* call k of /api/clock-sync ended as a failure at its caller
SyncGaveUp(k) == k \in Syncs /\ syncs[k].pc = "failed"

\* the step just taken ended an outbound call by its timeout, and the call
\* was not issued again: the loop is one peer further, or over
TimeoutMovesOn ==
  /\ ev'.kind = "askTimeout"
       => \E i \in DOMAIN HigherServers(ev'.node) :
            /\ HigherServers(ev'.node)[i] = ev'.peer
            /\ Asks(tasks', ev'.node, i) = Asks(tasks, ev'.node, i) - 1
  /\ ev'.kind = "notifyLost"
       => \E i \in DOMAIN OtherServers(ev'.node) :
            /\ OtherServers(ev'.node)[i] = ev'.peer
            /\ Notifies(tasks', ev'.node, i) = Notifies(tasks, ev'.node, i) - 1
  /\ ev'.kind = "rbTimeout"
       => /\ Len(reqs'[ev'.cand].rb) = Len(reqs[ev'.cand].rb) + 1
          /\ reqs'[ev'.cand].pc = "rb" => reqs'[ev'.cand].i = reqs[ev'.cand].i + 1
  /\ ev'.kind = "rsTimeout"
       => /\ Len(reqs'[ev'.cand].rs) = Len(reqs[ev'.cand].rs) + 1
          /\ reqs'[ev'.cand].pc = "rs" => reqs'[ev'.cand].i = reqs[ev'.cand].i + 1
  /\ ev'.kind = "syncTimeout"
       => syncs'[ev'.cand].pc = "failed" /\ Len(syncs') = Len(syncs)

\* C31: every election round, broadcast of the new leader, replicate call and
\* clock-sync call comes to an end even when no contacted peer ever answers:
\* each outbound call ends by its timeout and is not issued again.
C31_CallsEnd ==
  /\ [][TimeoutMovesOn]_vars
  /\ \A n \in Servers : RoundRunning(n) ~> ~RoundRunning(n)
  /\ \A k \in 1..MaxBookings : Replicating(k) ~> Answered200(k)
  /\ \A k \in 1..MaxSilentSyncs : SyncAwaited(k) ~> SyncGaveUp(k)

C31_Witness ==
  /\ Len(reqs) = 1 /\ reqs[1].pc = "done"
  /\ reqs[1].rb = <<"lost", "lost">> /\ reqs[1].rs = <<"lost", "lost">>
  /\ Len(syncs) = 1 /\ syncs[1].pc = "failed"
  /\ isLeader[SilentNode]
  /\ ev.kind = "notifyLost" /\ ev.node = SilentNode
  /\ tasks = EmptyBag

(* --------------------------- the manager ------------------------------ *)
\* C40: ServerManager.shutdown always terminates: once it is invoked it
\* eventually reports that all servers are stopped and exits, whichever
\* children still ran and whichever had exited before.
C40_ShutdownReports ==
  (manager.calls > 0) ~> (manager.reported /\ manager.pc = "exited")

(* ------------------------------ the app ------------------------------- *)
\* C32: for a booking that a server confirmed, the confirmation id that the
\* app shows and stores in its bookings list is the confirmationId that the
\* server generated, stored and returned for that booking.
C32_ShownIsServers ==
  \A j \in AppCalls :
    LET a == app[j]
        r == reqs[a.req]
    IN (a.pc = "shown" /\ ~a.simulated /\ r.status = 200)
         => /\ RowsOf(bookings[dbFile[r.origin]], r.confirmationId) # {}
            /\ a.shown = r.confirmationId
            /\ a.stored = r.confirmationId

(* ------------------------ one booking per slot ------------------------ *)
\* the rows of a table bookings for one slot of one doctor
RowsFor(rows, doctorId, slotTime) ==
  {x \in rows : x.doctor_id = doctorId /\ x.slot_time = slotTime}

\* C33: in every reachable state no store of a node holds two booking rows for
\* the same doctor and slot, even when two nodes accept bookings for the same
\* slot side by side and then replicate to each other.
C33_OneRowPerSlot ==
  \A n \in Servers, d \in DoctorIds, t \in SlotTimes :
    Cardinality(RowsFor(bookings[dbFile[n]], d, t)) <= 1

(* --------------------- two requests for one slot ---------------------- *)
\* requests j and k, the only two of the cluster, were posted to one node for
\* the same slot of the same doctor with all fields, and both have been answered
SameSlotPair(j, k) ==
  /\ Len(reqs) = 2
  /\ j # k
  /\ reqs[j].origin = reqs[k].origin
  /\ reqs[j].doctorId = reqs[k].doctorId /\ reqs[j].slotTime = reqs[k].slotTime
  /\ ~FieldsMissing(reqs[j].doctorId, reqs[j].patientName, reqs[j].slotTime)
  /\ ~FieldsMissing(reqs[k].doctorId, reqs[k].patientName, reqs[k].slotTime)
  /\ reqs[j].pc = "done" /\ reqs[k].pc = "done"

\* the rows that the store of the origin of request r holds for its slot
SlotRows(r) == RowsFor(bookings[dbFile[r.origin]], r.doctorId, r.slotTime)

\* request r was rejected as 'Slot no longer available': it drew no
\* confirmation id and made no call of db.createBooking
Rejected(r) == r.status = 400 /\ r.confirmationId = 0 /\ r.timestamp = 0

\* request r was accepted and its row is the only one of the slot
Accepted(r) ==
  /\ r.status = 200
  /\ SlotRows(r) = RowsOf(bookings[dbFile[r.origin]], r.confirmationId)
  /\ Cardinality(SlotRows(r)) = 1

\* C34 (as claimed): of two requests for one slot that one node processes side
\* by side while no third request is made, exactly one is accepted and
\* creates a booking row; the other is rejected as 'Slot no longer available'
\* and creates none.
C34_ExactlyOneAccepted ==
  \A j, k \in Requests :
    SameSlotPair(j, k)
      => \/ Accepted(reqs[j]) /\ Rejected(reqs[k])
         \/ Accepted(reqs[k]) /\ Rejected(reqs[j])

\* request r passed db.bookSlot and its INSERT failed: answered 500, and the
\* slot has no row
InsertFailed(r) == r.status = 500 /\ r.confirmationId # 0 /\ SlotRows(r) = {}

\* C34 (amended): of two such requests exactly one passes db.bookSlot and the
\* other is rejected as 'Slot no longer available' and creates no row; the one
\* that passed is accepted and creates the only row of the slot, unless its
\* INSERT fails: then it is answered 500 and the slot has no row at all.
C34_OnePassesBookSlot ==
  \A j, k \in Requests :
    SameSlotPair(j, k)
      => \/ (Accepted(reqs[j]) \/ InsertFailed(reqs[j])) /\ Rejected(reqs[k])
         \/ (Accepted(reqs[k]) \/ InsertFailed(reqs[k])) /\ Rejected(reqs[j])

\* both requests were in the handler at once: the second was rejected while
\* the first was still replicating; then the first was answered 200
C34_Witness ==
  /\ Len(reqs) = 2
  /\ SameSlotPair(1, 2)
  /\ Accepted(reqs[1]) /\ Rejected(reqs[2])
  /\ ev.kind = "rsReply" /\ ev.cand = 1
  /\ reqs[1].patientName = reqs[2].patientName

(* ----------------------- the leader column at rest -------------------- *)
\* no becomeLeader, no handler of leader-update and no election is under way
\* or still to come, and no process has ended, so that no write was cut
\* short: every write to the servers table that was begun is done
WritesCompleted == Quiescent /\ nstop = 0

\* the rows of table servers with is_leader = 1
LeaderRows == {n \in Servers : dbIsLeader[n]}

\* C35: under any interleaving of the store writes of becomeLeader, of the
\* handling of leader-update and of shutdown at nodes that share the servers
\* table, once all those writes have completed at most one row has
\* is_leader = 1.
C35_OneLeaderRow == WritesCompleted => Cardinality(LeaderRows) <= 1

(* ------------------------ a leader at every rest ---------------------- *)
\* some running node has role Leader
HasLeader == Leaders # {}

\* the is_leader column is no longer as seeded. With no process stopped its
\* only writers are becomeLeader, which sets the role Leader first, and the
\* handlers of the leader-update that a becomeLeader sends: some node has
\* become Leader
HasBecomeLeader == dbIsLeader # [n \in Servers |-> n = 1]

\* C36: once some node has become Leader, and with no node stopping, every
\* state at rest (no election message, armed election timer or leader-update
\* in flight) has at least one node with role Leader, even when elections
\* raced because a contact of a peer failed for a while.
C36_LeaderAtRest == (HasBecomeLeader /\ nstop = 0 /\ Quiescent) => HasLeader

\* the store of request r's origin is as it was before the only request of a
\* run: every seeded slot available, no booking row
OriginUntouched(r) ==
  /\ slots[dbFile[r.origin]] = [k \in SeededSlots |-> TRUE]
  /\ bookings[dbFile[r.origin]] = {}

\* C37: when POST /api/bookings answers with an error (400 or 500), the
\* origin's store is unchanged by that request: no slot changed availability
\* and no booking row was added.
C37_ErrorLeavesStore ==
  \A k \in Requests :
    (Len(reqs) = 1 /\ reqs[k].status \in {400, 500}) => OriginUntouched(reqs[k])

\* an election is in flight: an election timer is armed on a running node or
\* a performBullyElection awaits the answer of a higher server
ElectionInFlight ==
  \/ \E n \in Servers : up[n] /\ timers[n] > 0
  \/ \E t \in TaskSet : t.pc = "ask"

\* the step is an election message of candidate ev'.cand that node ev'.peer handled
ElectionMessage == ev'.kind \in {"election", "ask", "askTimeout"}

\* C38: a single election trigger causes only finitely many election messages
\* and elections: an election timer is armed only by an election message, on
\* the node that handled it, and only when that node's id is strictly higher
\* than the candidate's; and an election in flight leads to a state with no
\* election in flight.
C38_ElectionsEnd ==
  /\ [][\A p \in Servers : timers'[p] > timers[p] =>
          (ElectionMessage /\ ev'.peer = p /\ ev'.cand # undefined /\ ev'.cand < p)]_vars
  /\ (ElectionInFlight ~> ~ElectionInFlight)

\* node 2 handled the election message of candidate 1 and its timer is armed
C38_Witness ==
  /\ ev.kind = "ask" /\ ev.node = 1 /\ ev.peer = 2 /\ ev.cand = 1
  /\ timers[2] > 0 /\ ntrig = 1

\* C39: in the store, every node that is running (and so publishing
\* heartbeats) has status 'active'; status 'inactive' appears only for a node
\* that has shut down and has not been started again.
C39_StatusOfRunning ==
  \A n \in Servers :
    /\ up[n] => dbStatus[n] = "active"
    /\ dbStatus[n] = "inactive" => ~up[n]

====
